---- MODULE Spec2Model ----
(***************************************************************************)
(* The concurrent pipeline of the essay analyzer: runPipeline and the      *)
(* tasks it starts (readURLs, fetcherWorker, parserWorker,                 *)
(* processorWorker, the three closer tasks, aggregatorWorker, the error    *)
(* collector), Fetcher.FetchURL with its rate gate, retries and backoff,   *)
(* and Aggregator.AddResult.  Go channels are bounded FIFO queues; a send  *)
(* on a closed channel and a second close of a channel panic.              *)
(* Beside the pipeline: one FetchURL call followed attempt by attempt      *)
(* (CallSpec), main from fetcher.New to the start of the workers           *)
(* (StartupSpec), the questions to the crawl policy (IsAllowed,            *)
(* matchesPattern, GetCrawlDelay) on bounded policies, paths and patterns  *)
(* and the other pure functions of the program (QuerySpec), and the Aggregator under concurrent AddResult, GetStats    *)
(* and GetTopWords calls (AggSpec), and the Parser under concurrent         *)
(* ExtractText calls (ExtractSpec).                                        *)
(***************************************************************************)
EXTENDS Integers, Sequences, FiniteSets, TLC

(* ---- bounds of the model ---- *)
\* longest source file, in lines
MaxLines == 2
\* worker tasks per stage (WorkerConfig.Fetchers / Parsers / Processors)
NumFetchers == 2
\* fetcher tasks in the runs checked for termination
FairFetchers == 1
NumParsers == 1
NumProcessors == 1
\* buffer sizes of the five channels, scaled down from 100/50/50/100/100
UrlCap == 1
HtmlCap == 1
TextCap == 1
ResultsCap == 1
ErrorCap == 1
\* burst of the rate gate when it is bounded
Burst == 1
\* largest count of one word in one article
MaxCount == 1
\* most rule groups in a crawl policy
MaxGroups == 2
\* longest URL path, in characters
MaxPath == 2
\* largest crawl delay of a rule group, in seconds
MaxDelay == 2
\* largest --rate-limit, in requests per second
MaxRate == 2
\* rate-gate acquisitions followed after the workers have started
MaxAcquire == 1
\* goroutines calling AddResult at once, and goroutines reading meanwhile
NumWriters == 2
NumReaders == 1
\* largest n asked of GetTopWords
MaxTop == 3
\* largest --workers value asked about
MaxWorkers == 10
\* longest robots.txt parsed, in lines
MaxRobotsLines == 3
\* longest text given to ProcessText, in characters
MaxText == 4
\* goroutines calling ExtractText on one Parser at once
NumExtractors == 2
\* longest disallow pattern asked about, in characters
MaxPattern == 2

(* ---- program constants ---- *)
MaxRetries == 3

Words == {"computer", "science"}
LineKinds == {"blank", "allowed", "denied"}
Chans == {"urlCh", "htmlCh", "textCh", "resultsCh", "errorCh"}

Closers == {"htmlCh", "textCh", "resultsCh"}

\* a URL is named by its line number; source 0 is the reader itself
Urls == 1..MaxLines
Sources == 0..MaxLines

\* the word counts ProcessText can return (0: the word is not a key of the map)
CountMaps == [Words -> 0..MaxCount]
NoCounts == [w \in Words |-> 0]
\* the word counts of the documents served to a pipeline run: no valid word at
\* all, or every word of the bank MaxCount times
DocCounts == {NoCounts, [w \in Words |-> MaxCount]}

VARIABLES
    lines,        \* the URLs file: one kind per line
    unbounded,    \* rate gate built with rate.Inf (no --rate-limit, no crawl delay)
    tokens,       \* tokens in the bucket of a bounded rate gate
    cancelled,    \* ctx.Done() is closed
    ch,           \* contents of the five channels
    closed,       \* number of close() calls made on each channel
    panicked,     \* "" or the runtime panic that ended the process
    reader,       \* the URL reader task
    fetcher,      \* fetcherWorker tasks
    parser,       \* parserWorker tasks
    processor,    \* processorWorker tasks
    aggregator,   \* the aggregatorWorker task
    closer,       \* the three closer tasks
    collector,    \* the error collector task
    main,         \* runPipeline itself
    wg,           \* wg, fetcherWg, parserWg, processorWg, errorWg counters
    agg,          \* the Aggregator's fields
    errorCount,   \* runPipeline's errorCount
    hist,         \* history: what was aggregated, counted as an error, left open
    call,         \* one FetchURL call followed step by step, or NoCall
    startup,      \* main before runPipeline: New and LoadRobotsTxt, or NoStartup
    query,        \* one question put to the crawl policy, or NoQuery
    mu,           \* the Aggregator's RWMutex: its writer and its readers
    caller,       \* goroutines calling AddResult, GetStats and GetTopWords at once
    extract       \* a Parser's failedCount and the goroutines calling ExtractText

vars == <<lines, unbounded, tokens, cancelled, ch, closed, panicked, reader, fetcher,
          parser, processor, aggregator, closer, collector, main, wg, agg,
          errorCount, hist, call, startup, query, mu, caller, extract>>

\* what the pipeline's tasks never touch
Aside == <<call, startup, query, mu, caller, extract>>
NoCall == [pc |-> "none"]
NoStartup == [pc |-> "none"]
NoQuery == [op |-> "none"]
\* a.mu unlocked; nobody calling besides aggregatorWorker
NoMu == [writer |-> 0, readers |-> 0]
NoCaller == [add |-> <<>>, read |-> <<>>]
\* no Parser followed
NoExtract == [failedCount |-> 0, calls |-> <<>>]

\* an envelope on a channel: URLJob, HTMLResult, TextResult, ProcessingResult or error
Env(u, e, c) == [url |-> u, err |-> e, wc |-> c]

Cap(c) ==
    CASE c = "urlCh" -> UrlCap
      [] c = "htmlCh" -> HtmlCap
      [] c = "textCh" -> TextCap
      [] c = "resultsCh" -> ResultsCap
      [] c = "errorCh" -> ErrorCap

\* the aggregator started without wg.Add(1)
WgAddsNoAggregator(nf, np, nc) == 1 + nf + np + nc

\* the wg.Add(1) calls of runPipeline: reader, the stage workers, aggregator
WgAdds(nf, np, nc) == 1 + nf + np + nc + 1

RECURSIVE SeqsUpTo(_, _)
SeqsUpTo(S, n) ==
    IF n = 0 THEN {<<>>}
    ELSE LET shorter == SeqsUpTo(S, n - 1)
         IN shorter \cup {Append(s, x) : s \in {t \in shorter : Len(t) = n - 1}, x \in S}

\* runPipeline has made its channels and started its tasks, for a worker
\* configuration of nf fetchers, np parsers and nc processors
Start(nf, np, nc) ==
    /\ lines \in SeqsUpTo(LineKinds, MaxLines)
    /\ unbounded = FALSE
    /\ tokens = Burst
    /\ cancelled = FALSE
    /\ ch = [c \in Chans |-> <<>>]
    /\ closed = [c \in Chans |-> 0]
    /\ panicked = ""
    /\ reader = [pc |-> "open", idx |-> 1, err |-> "", urlCount |-> 0]
    /\ fetcher = [f \in 1..nf |-> [pc |-> "loop", url |-> 0, attempt |-> 0, err |-> ""]]
    /\ parser = [p \in 1..np |-> [pc |-> "loop", url |-> 0, err |-> ""]]
    /\ processor = [p \in 1..nc |-> [pc |-> "loop", url |-> 0, err |-> "", wc |-> NoCounts]]
    /\ aggregator = [pc |-> "loop", url |-> 0, wc |-> NoCounts]
    /\ closer = [c \in Closers |-> "wait"]
    /\ collector = "loop"
    /\ main = "wait"
    /\ wg = [all |-> WgAdds(nf, np, nc), fetcherWg |-> nf, parserWg |-> np,
             processorWg |-> nc, errorWg |-> 1]
    /\ agg = [globalWordCounts |-> NoCounts, totalWordsProcessed |-> 0,
              totalEssaysProcessed |-> 0]
    /\ errorCount = 0
    /\ hist = [added |-> [u \in Urls |-> 0],
               addedWc |-> [u \in Urls |-> NoCounts],
               errored |-> [u \in Sources |-> 0],
               open |-> [u \in Urls |-> 0]]
    /\ call = NoCall /\ startup = NoStartup /\ query = NoQuery
    /\ mu = NoMu /\ caller = NoCaller /\ extract = NoExtract

Init == Start(NumFetchers, NumParsers, NumProcessors)

Fetchers == DOMAIN fetcher
Parsers == DOMAIN parser
Processors == DOMAIN processor

Running == panicked = ""

(* ---- channel operations ---- *)
\* a send proceeds whether or not the buffer has room
CanSendUnbounded(c) == TRUE

\* a send can proceed when the buffer has room; on a closed channel it panics
CanSend(c) == closed[c] > 0 \/ Len(ch[c]) < Cap(c)
Send(c, e) ==
    IF closed[c] > 0
    THEN /\ panicked' = "send on closed channel"
         /\ ch' = ch
    ELSE /\ ch' = [ch EXCEPT ![c] = Append(@, e)]
         /\ panicked' = panicked
\* a receive delivers a buffered value, or ok = false once closed and drained
CanRecv(c) == Len(ch[c]) > 0
Drained(c) == Len(ch[c]) = 0 /\ closed[c] > 0

\* a receive that leaves the value in the buffer for the next receiver
RecvKeeping(c) == ch' = ch

Recv(c) == ch' = [ch EXCEPT ![c] = Tail(@)]
Close(c) ==
    /\ closed' = [closed EXCEPT ![c] = @ + 1]
    /\ panicked' = IF closed[c] > 0 THEN "close of closed channel" ELSE panicked

(* ---- the URL reader: runPipeline's first task and readURLs ---- *)
OthersReader == <<Aside, lines, unbounded, tokens, cancelled, fetcher, parser, processor,
                  aggregator, closer, collector, main, agg, errorCount, hist>>

\* os.Open succeeds or fails
ReaderOpen ==
    /\ Running /\ reader.pc = "open"
    /\ \/ reader' = [reader EXCEPT !.pc = "scan"]
       \/ reader' = [reader EXCEPT !.pc = "report", !.err = "open"]
    /\ UNCHANGED <<OthersReader, ch, closed, panicked, wg>>

\* the reader task returns: the deferred close(urlCh) and wg.Done()
ReaderExit ==
    /\ Close("urlCh")
    /\ wg' = [wg EXCEPT !.all = @ - 1]

\* one turn of the scanner loop up to the send: end of file (readURLs returns
\* nil), a read error, the poll of ctx.Done(), a skipped line, or a URL to queue
ReaderScan ==
    /\ Running /\ reader.pc = "scan"
    /\ \/ /\ reader.idx > Len(lines)
          /\ reader' = [reader EXCEPT !.pc = "done"]
          /\ ReaderExit
       \/ /\ reader' = [reader EXCEPT !.pc = "report", !.err = "read"]
          /\ UNCHANGED <<closed, panicked, wg>>
       \/ /\ reader.idx <= Len(lines)
          /\ reader' = IF cancelled
                       THEN [reader EXCEPT !.pc = "report", !.err = "ctx"]
                       ELSE IF lines[reader.idx] = "blank"
                       THEN [reader EXCEPT !.idx = @ + 1]
                       ELSE [reader EXCEPT !.pc = "send"]
          /\ UNCHANGED <<closed, panicked, wg>>
    /\ UNCHANGED <<OthersReader, ch>>

\* a plain urlCh <- URLJob{url}, with no ctx.Done() case
ReaderSendIgnoringCancel ==
    /\ Running /\ reader.pc = "send"
    /\ CanSend("urlCh")
    /\ Send("urlCh", Env(reader.idx, "", NoCounts))
    /\ reader' = [reader EXCEPT !.pc = "scan", !.idx = @ + 1, !.urlCount = @ + 1]
    /\ UNCHANGED <<OthersReader, closed, wg>>

\* select { urlCh <- URLJob{url}; <-ctx.Done() }
ReaderSend ==
    /\ Running /\ reader.pc = "send"
    /\ \/ /\ CanSend("urlCh")
          /\ Send("urlCh", Env(reader.idx, "", NoCounts))
          /\ reader' = [reader EXCEPT !.pc = "scan", !.idx = @ + 1, !.urlCount = @ + 1]
       \/ /\ cancelled
          /\ reader' = [reader EXCEPT !.pc = "report", !.err = "ctx"]
          /\ UNCHANGED <<ch, panicked>>
    /\ UNCHANGED <<OthersReader, closed, wg>>

\* readURLs returned an error: select { errorCh <- err; <-ctx.Done() }, then
\* the task returns
ReaderReport ==
    /\ Running /\ reader.pc = "report"
    /\ reader' = [reader EXCEPT !.pc = "done"]
    /\ \/ /\ CanSend("errorCh")
          /\ IF closed["errorCh"] > 0
             THEN /\ panicked' = "send on closed channel"
                  /\ UNCHANGED <<ch, closed, wg>>
             ELSE /\ ch' = [ch EXCEPT !["errorCh"] = Append(@, Env(0, reader.err, NoCounts))]
                  /\ ReaderExit
       \/ /\ cancelled
          /\ ch' = ch
          /\ ReaderExit
    /\ UNCHANGED OthersReader

(* ---- the crawl policy and the rate gate as the fetch stage sees them ---- *)
\* Fetcher.IsAllowed for the URL on line u
IsAllowed(u) == lines[u] # "denied"

\* time passes and the bucket of a bounded gate refills (it is looked at only
\* by a call that waits for a token)
Refill ==
    /\ Running /\ ~unbounded /\ tokens < Burst
    /\ \E f \in Fetchers : fetcher[f].pc = "wait"
    /\ tokens' = tokens + 1
    /\ UNCHANGED <<Aside, lines, unbounded, cancelled, ch, closed, panicked, reader, fetcher,
                   parser, processor, aggregator, closer, collector, main, wg, agg,
                   errorCount, hist>>

(* ---- fetcherWorker and Fetcher.FetchURL ---- *)
OthersFetcher == <<Aside, lines, unbounded, cancelled, reader, parser, processor,
                   aggregator, closer, collector, main, agg, errorCount>>

\* a worker at the top of its for loop
FetcherIdle == [pc |-> "loop", url |-> 0, attempt |-> 0, err |-> ""]

\* job, ok := <-urlCh with ok true, the robots.txt check, and the entry of FetchURL
FetcherRecv(f) ==
    /\ Running /\ fetcher[f].pc = "loop"
    /\ CanRecv("urlCh")
    /\ Recv("urlCh")
    /\ LET job == Head(ch["urlCh"])
       IN fetcher' = [fetcher EXCEPT ![f] =
              [pc |-> IF IsAllowed(job.url) THEN "wait" ELSE "reject",
               url |-> job.url, attempt |-> 0, err |-> ""]]
    /\ UNCHANGED <<OthersFetcher, tokens, closed, panicked, wg, hist>>

\* a worker that also closes its output channel when it returns
FetcherExitClosing(f) ==
    /\ fetcher' = [fetcher EXCEPT ![f] = [pc |-> "done", url |-> 0, attempt |-> 0, err |-> ""]]
    /\ wg' = [wg EXCEPT !.all = @ - 1, !.fetcherWg = @ - 1]
    /\ Close("htmlCh")
    /\ UNCHANGED <<OthersFetcher, tokens, ch, hist>>

\* the worker returns: deferred fetcherWg.Done() and wg.Done()
FetcherExit(f) ==
    /\ fetcher' = [fetcher EXCEPT ![f] = [pc |-> "done", url |-> 0, attempt |-> 0, err |-> ""]]
    /\ wg' = [wg EXCEPT !.all = @ - 1, !.fetcherWg = @ - 1]
    /\ UNCHANGED <<OthersFetcher, tokens, ch, closed, panicked, hist>>

\* job, ok := <-urlCh with ok false
FetcherClosed(f) ==
    /\ Running /\ fetcher[f].pc = "loop"
    /\ Drained("urlCh")
    /\ FetcherExit(f)

\* case <-ctx.Done() of any of the worker's three selects
FetcherCancelled(f) ==
    /\ Running /\ fetcher[f].pc \in {"loop", "reject", "send"}
    /\ cancelled
    /\ FetcherExit(f)

\* a worker that returns after reporting a disallowed URL
FetcherRejectAndReturn(f) ==
    /\ Running /\ fetcher[f].pc = "reject"
    /\ CanSend("errorCh")
    /\ Send("errorCh", Env(fetcher[f].url, "denied", NoCounts))
    /\ fetcher' = [fetcher EXCEPT ![f] = [pc |-> "done", url |-> 0, attempt |-> 0, err |-> ""]]
    /\ wg' = [wg EXCEPT !.all = @ - 1, !.fetcherWg = @ - 1]
    /\ UNCHANGED <<OthersFetcher, tokens, closed, hist>>

\* errorCh <- "robots.txt disallows ..."; continue
FetcherReject(f) ==
    /\ Running /\ fetcher[f].pc = "reject"
    /\ CanSend("errorCh")
    /\ Send("errorCh", Env(fetcher[f].url, "denied", NoCounts))
    /\ fetcher' = [fetcher EXCEPT ![f] = FetcherIdle]
    /\ UNCHANGED <<OthersFetcher, tokens, closed, wg, hist>>

\* the outcomes of f.client.Do(req): no response, or a response with its status
Outcomes == {"transport", "5xx", "4xx", "2xx"}

\* one attempt of FetchURL.  rateLimiter.Wait(ctx): a cancelled context fails
\* the call; a free token (or an unbounded gate) lets the attempt go on;
\* otherwise the call stays blocked until Refill or Cancel.  Then
\* f.client.Do(req), which ends with or without a response whether or not the
\* context was cancelled meanwhile, and the classification of its outcome
\* (a URL that http.NewRequestWithContext rejects ends the attempt as a 4xx
\* does: a token taken, an error returned, no retry).  A 2xx response hands
\* its body to the worker, open (hist.open); the body of a 4xx or 5xx response
\* is closed by FetchURL, and neither worker calls Close on HTMLResult.Content.
FetchAttempt(f) ==
    /\ Running /\ fetcher[f].pc = "wait"
    /\ \/ /\ cancelled
          /\ fetcher' = [fetcher EXCEPT ![f].pc = "send", ![f].err = "ratelimit"]
          /\ tokens' = tokens /\ hist' = hist
       \/ /\ ~cancelled
          /\ unbounded \/ tokens > 0
          /\ tokens' = IF unbounded THEN tokens ELSE tokens - 1
          /\ \E o \in Outcomes :
                /\ fetcher' = [fetcher EXCEPT ![f] =
                       CASE o \in {"transport", "5xx"} -> [@ EXCEPT !.pc = "backoff"]
                         [] o = "4xx" -> [@ EXCEPT !.pc = "send", !.err = "fetch"]
                         [] o = "2xx" -> [@ EXCEPT !.pc = "send", !.err = ""]]
                /\ hist' = IF o = "2xx"
                           THEN [hist EXCEPT !.open[fetcher[f].url] = @ + 1]
                           ELSE hist
    /\ UNCHANGED <<OthersFetcher, ch, closed, panicked, wg>>

\* f.backoff(attempt): time.Sleep ends, then the next attempt or "failed after 3 attempts"
FetchBackoff(f) ==
    /\ Running /\ fetcher[f].pc = "backoff"
    /\ fetcher' = [fetcher EXCEPT ![f] =
           IF @.attempt + 1 < MaxRetries
           THEN [@ EXCEPT !.pc = "wait", !.attempt = @ + 1]
           ELSE [@ EXCEPT !.pc = "send", !.attempt = 0, !.err = "fetch"]]
    /\ UNCHANGED <<OthersFetcher, tokens, ch, closed, panicked, wg, hist>>

\* htmlCh <- HTMLResult{url, content, err}
FetcherSend(f) ==
    /\ Running /\ fetcher[f].pc = "send"
    /\ CanSend("htmlCh")
    /\ Send("htmlCh", Env(fetcher[f].url, fetcher[f].err, NoCounts))
    /\ fetcher' = [fetcher EXCEPT ![f] = FetcherIdle]
    /\ UNCHANGED <<OthersFetcher, tokens, closed, wg, hist>>

(* ---- parserWorker ---- *)
OthersParser == <<Aside, lines, unbounded, tokens, cancelled, reader, fetcher, processor,
                  aggregator, closer, collector, main, agg, errorCount, hist>>

ParserIdle == [pc |-> "loop", url |-> 0, err |-> ""]

\* result, ok := <-htmlCh with ok true; a fetch error is wrapped, otherwise
\* ExtractText yields a text or fails
ParserRecv(p) ==
    /\ Running /\ parser[p].pc = "loop"
    /\ CanRecv("htmlCh")
    /\ Recv("htmlCh")
    /\ LET result == Head(ch["htmlCh"])
       IN \E e \in (IF result.err # "" THEN {result.err} ELSE {"", "parse"}) :
              parser' = [parser EXCEPT ![p] = [pc |-> "send", url |-> result.url, err |-> e]]
    /\ UNCHANGED <<OthersParser, closed, panicked, wg>>

\* the worker returns: deferred parserWg.Done() and wg.Done()
ParserExit(p) ==
    /\ parser' = [parser EXCEPT ![p] = [pc |-> "done", url |-> 0, err |-> ""]]
    /\ wg' = [wg EXCEPT !.all = @ - 1, !.parserWg = @ - 1]
    /\ UNCHANGED <<OthersParser, ch, closed, panicked>>

ParserClosed(p) ==
    /\ Running /\ parser[p].pc = "loop"
    /\ Drained("htmlCh")
    /\ ParserExit(p)

ParserCancelled(p) ==
    /\ Running /\ parser[p].pc \in {"loop", "send"}
    /\ cancelled
    /\ ParserExit(p)

\* textCh <- TextResult{url, text, err}
ParserSend(p) ==
    /\ Running /\ parser[p].pc = "send"
    /\ CanSend("textCh")
    /\ Send("textCh", Env(parser[p].url, parser[p].err, NoCounts))
    /\ parser' = [parser EXCEPT ![p] = ParserIdle]
    /\ UNCHANGED <<OthersParser, closed, wg>>

(* ---- processorWorker ---- *)
OthersProcessor == <<Aside, lines, unbounded, tokens, cancelled, reader, fetcher, parser,
                     aggregator, closer, collector, main, agg, errorCount, hist>>

ProcessorIdle == [pc |-> "loop", url |-> 0, err |-> "", wc |-> NoCounts]

\* result, ok := <-textCh with ok true; an error goes to the error sink,
\* a text goes through ProcessText
ProcessorRecv(p) ==
    /\ Running /\ processor[p].pc = "loop"
    /\ CanRecv("textCh")
    /\ Recv("textCh")
    /\ LET result == Head(ch["textCh"])
       IN IF result.err # ""
          THEN processor' = [processor EXCEPT ![p] =
                   [pc |-> "reject", url |-> result.url, err |-> result.err, wc |-> NoCounts]]
          ELSE \E c \in DocCounts :
                   processor' = [processor EXCEPT ![p] =
                       [pc |-> "send", url |-> result.url, err |-> "", wc |-> c]]
    /\ UNCHANGED <<OthersProcessor, closed, panicked, wg>>

\* the worker returns: deferred processorWg.Done() and wg.Done()
ProcessorExit(p) ==
    /\ processor' = [processor EXCEPT ![p] = [ProcessorIdle EXCEPT !.pc = "done"]]
    /\ wg' = [wg EXCEPT !.all = @ - 1, !.processorWg = @ - 1]
    /\ UNCHANGED <<OthersProcessor, ch, closed, panicked>>

ProcessorClosed(p) ==
    /\ Running /\ processor[p].pc = "loop"
    /\ Drained("textCh")
    /\ ProcessorExit(p)

ProcessorCancelled(p) ==
    /\ Running /\ processor[p].pc \in {"loop", "reject", "send"}
    /\ cancelled
    /\ ProcessorExit(p)

\* a processor that drops the failed item without reporting it
ProcessorRejectSilently(p) ==
    /\ Running /\ processor[p].pc = "reject"
    /\ processor' = [processor EXCEPT ![p] = ProcessorIdle]
    /\ UNCHANGED <<OthersProcessor, ch, closed, panicked, wg>>

\* errorCh <- "processing <url>: ..."; continue
ProcessorReject(p) ==
    /\ Running /\ processor[p].pc = "reject"
    /\ CanSend("errorCh")
    /\ Send("errorCh", Env(processor[p].url, processor[p].err, NoCounts))
    /\ processor' = [processor EXCEPT ![p] = ProcessorIdle]
    /\ UNCHANGED <<OthersProcessor, closed, wg>>

\* resultsCh <- ProcessingResult{url, wordCounts}
ProcessorSend(p) ==
    /\ Running /\ processor[p].pc = "send"
    /\ CanSend("resultsCh")
    /\ Send("resultsCh", Env(processor[p].url, "", processor[p].wc))
    /\ processor' = [processor EXCEPT ![p] = ProcessorIdle]
    /\ UNCHANGED <<OthersProcessor, closed, wg>>

(* ---- Aggregator.AddResult and aggregatorWorker ---- *)
RECURSIVE SumOver(_, _)
SumOver(S, c) ==
    IF S = {} THEN 0
    ELSE LET w == CHOOSE x \in S : TRUE
         IN c[w] + SumOver(S \ {w}, c)

\* AddResult under a.mu: every word of the result is added to the global
\* counts, then the two totals are advanced
AddResult(a, wc) ==
    [globalWordCounts |-> [w \in Words |-> a.globalWordCounts[w] + wc[w]],
     totalWordsProcessed |-> a.totalWordsProcessed + SumOver(Words, wc),
     totalEssaysProcessed |-> a.totalEssaysProcessed + 1]

OthersAggregator == <<Aside, lines, unbounded, tokens, cancelled, reader, fetcher, parser,
                      processor, closer, collector, main, errorCount>>

AggregatorIdle == [pc |-> "loop", url |-> 0, wc |-> NoCounts]

\* result, ok := <-resultsCh with ok true: AddResult is entered
AggregatorRecv ==
    /\ Running /\ aggregator.pc = "loop"
    /\ CanRecv("resultsCh")
    /\ Recv("resultsCh")
    /\ LET result == Head(ch["resultsCh"])
       IN aggregator' = [pc |-> "add", url |-> result.url, wc |-> result.wc]
    /\ UNCHANGED <<OthersAggregator, closed, panicked, wg, agg, hist>>

\* agg.AddResult(result) runs to its end
AggregatorAdd ==
    /\ Running /\ aggregator.pc = "add"
    /\ agg' = AddResult(agg, aggregator.wc)
    /\ hist' = [hist EXCEPT !.added[aggregator.url] = @ + 1,
                            !.addedWc[aggregator.url] =
                                [w \in Words |-> @[w] + aggregator.wc[w]]]
    /\ aggregator' = AggregatorIdle
    /\ UNCHANGED <<OthersAggregator, ch, closed, panicked, wg>>

\* the worker returns: deferred wg.Done()
AggregatorExit ==
    /\ aggregator' = [AggregatorIdle EXCEPT !.pc = "done"]
    /\ wg' = [wg EXCEPT !.all = @ - 1]
    /\ UNCHANGED <<OthersAggregator, ch, closed, panicked, agg, hist>>

AggregatorClosed ==
    /\ Running /\ aggregator.pc = "loop"
    /\ Drained("resultsCh")
    /\ AggregatorExit

AggregatorCancelled ==
    /\ Running /\ aggregator.pc = "loop"
    /\ cancelled
    /\ AggregatorExit

(* ---- the closer tasks, the error collector and runPipeline's tail ---- *)
\* the closer of resultsCh waiting on wg instead of processorWg
StageWgShared(c) ==
    CASE c = "htmlCh" -> "fetcherWg"
      [] c = "textCh" -> "parserWg"
      [] c = "resultsCh" -> "all"

\* the stage wait group that guards the close of a stage's output channel
StageWg(c) ==
    CASE c = "htmlCh" -> "fetcherWg"
      [] c = "textCh" -> "parserWg"
      [] c = "resultsCh" -> "processorWg"

\* a Wait() that returns while one task of the group is still running
WaitDoneEarly(g) == wg[g] <= 1

\* WaitGroup.Wait() returns
WaitDone(g) == wg[g] = 0

\* go func() { stageWg.Wait(); close(out) }()
CloserClose(c) ==
    /\ Running /\ closer[c] = "wait"
    /\ WaitDone(StageWg(c))
    /\ Close(c)
    /\ closer' = [closer EXCEPT ![c] = "done"]
    /\ UNCHANGED <<Aside, lines, unbounded, tokens, cancelled, ch, reader, fetcher, parser,
                   processor, aggregator, collector, main, wg, agg, errorCount, hist>>

\* for err := range errorCh { errorCount++ }
CollectorRecv ==
    /\ Running /\ collector = "loop"
    /\ CanRecv("errorCh")
    /\ Recv("errorCh")
    /\ errorCount' = errorCount + 1
    /\ hist' = [hist EXCEPT !.errored[Head(ch["errorCh"]).url] = @ + 1]
    /\ UNCHANGED <<Aside, lines, unbounded, tokens, cancelled, closed, panicked, reader,
                   fetcher, parser, processor, aggregator, closer, collector, main,
                   wg, agg>>

\* the range loop ends: deferred errorWg.Done()
CollectorClosed ==
    /\ Running /\ collector = "loop"
    /\ Drained("errorCh")
    /\ collector' = "done"
    /\ wg' = [wg EXCEPT !.errorWg = @ - 1]
    /\ UNCHANGED <<Aside, lines, unbounded, tokens, cancelled, ch, closed, panicked, reader,
                   fetcher, parser, processor, aggregator, closer, main, agg,
                   errorCount, hist>>

\* close(errorCh) placed before wg.Wait()
MainCloseErrorsEarly ==
    /\ Running /\ main = "wait"
    /\ Close("errorCh")
    /\ main' = "errorWait"
    /\ UNCHANGED <<Aside, lines, unbounded, tokens, cancelled, ch, reader, fetcher, parser,
                   processor, aggregator, closer, collector, wg, agg, errorCount, hist>>

\* wg.Wait(); close(errorCh)
MainCloseErrors ==
    /\ Running /\ main = "wait"
    /\ WaitDone("all")
    /\ Close("errorCh")
    /\ main' = "errorWait"
    /\ UNCHANGED <<Aside, lines, unbounded, tokens, cancelled, ch, reader, fetcher, parser,
                   processor, aggregator, closer, collector, wg, agg, errorCount, hist>>

\* a return that does not wait for the error collector
MainReturnUnwaited ==
    /\ Running /\ main = "errorWait"
    /\ main' = "returned"
    /\ UNCHANGED <<Aside, lines, unbounded, tokens, cancelled, ch, closed, panicked, reader,
                   fetcher, parser, processor, aggregator, closer, collector, wg, agg,
                   errorCount, hist>>

\* errorWg.Wait(); return nil
MainReturn ==
    /\ Running /\ main = "errorWait"
    /\ WaitDone("errorWg")
    /\ main' = "returned"
    /\ UNCHANGED <<Aside, lines, unbounded, tokens, cancelled, ch, closed, panicked, reader,
                   fetcher, parser, processor, aggregator, closer, collector, wg, agg,
                   errorCount, hist>>

\* the interrupt handler of main calls cancel()
Cancel ==
    /\ Running /\ ~cancelled
    /\ main # "returned"
    /\ cancelled' = TRUE
    /\ UNCHANGED <<Aside, lines, unbounded, tokens, ch, closed, panicked, reader, fetcher,
                   parser, processor, aggregator, closer, collector, main, wg, agg,
                   errorCount, hist>>

(* ---- the specification ---- *)
ReaderNext == ReaderOpen \/ ReaderScan \/ ReaderSend \/ ReaderReport

FetcherNext(f) ==
    \/ FetcherRecv(f) \/ FetcherClosed(f) \/ FetcherCancelled(f) \/ FetcherReject(f)
    \/ FetchAttempt(f) \/ FetchBackoff(f) \/ FetcherSend(f)

ParserNext(p) == ParserRecv(p) \/ ParserClosed(p) \/ ParserCancelled(p) \/ ParserSend(p)

ProcessorNext(p) ==
    \/ ProcessorRecv(p) \/ ProcessorClosed(p) \/ ProcessorCancelled(p)
    \/ ProcessorReject(p) \/ ProcessorSend(p)

AggregatorNext == AggregatorRecv \/ AggregatorAdd \/ AggregatorClosed \/ AggregatorCancelled

CollectorNext == CollectorRecv \/ CollectorClosed

MainNext == MainCloseErrors \/ MainReturn

\* a step of the program itself: of one of its tasks, or of its clock
Step ==
    \/ ReaderNext
    \/ \E f \in Fetchers : FetcherNext(f)
    \/ \E p \in Parsers : ParserNext(p)
    \/ \E p \in Processors : ProcessorNext(p)
    \/ AggregatorNext
    \/ \E c \in Closers : CloserClose(c)
    \/ CollectorNext
    \/ MainNext
    \/ Refill

Next == Step \/ Cancel

Spec == Init /\ [][Next]_vars

\* every task is scheduled again and again and time passes; the interrupt is
\* the only step that need not happen
FairInit == Start(FairFetchers, NumParsers, NumProcessors)

FairSpec ==
    /\ FairInit /\ [][Next]_vars
    /\ WF_vars(ReaderNext)
    /\ \A f \in 1..FairFetchers : WF_vars(FetcherNext(f))
    /\ \A p \in 1..NumParsers : WF_vars(ParserNext(p))
    /\ \A p \in 1..NumProcessors : WF_vars(ProcessorNext(p))
    /\ WF_vars(AggregatorNext)
    /\ \A c \in Closers : WF_vars(CloserClose(c))
    /\ WF_vars(CollectorNext)
    /\ WF_vars(MainNext)
    /\ WF_vars(Refill)

Returned == main = "returned"

(* ---- the crawl policy: RobotsParser ---- *)
\* Strings are sequences of characters; "LF" is the line feed, which a URL
\* path can hold (url.Parse decodes %0A) and which "." of a regexp skips.
PathChars == {"/", "a", "LF"}

UserAgent == "EssayAnalyzer/1.0"
Agents == {"EssayAnalyzer/1.0", "essayanalyzer/1.0", "Googlebot", "*"}

\* the case folding of strings.EqualFold on the agent names of the model
Fold(a) ==
    CASE a = "EssayAnalyzer/1.0" -> "essayanalyzer/1.0"
      [] a = "Googlebot" -> "googlebot"
      [] OTHER -> a

EqualFold(a, b) == Fold(a) = Fold(b)

\* strings.HasPrefix
HasPrefix(s, prefix) ==
    Len(prefix) <= Len(s) /\ SubSeq(s, 1, Len(prefix)) = prefix

\* regexp.MatchString("^" + p', s), p' being QuoteMeta(p) with every \* turned
\* into .* : some prefix of s is p with each * replaced by characters other
\* than line feeds
RECURSIVE MatchString(_, _)
MatchString(p, s) ==
    IF p = <<>> THEN TRUE
    ELSE IF Head(p) = "*"
    THEN \E k \in 0..Len(s) :
            /\ \A i \in 1..k : s[i] # "LF"
            /\ MatchString(Tail(p), SubSeq(s, k + 1, Len(s)))
    ELSE s # <<>> /\ Head(s) = Head(p) /\ MatchString(Tail(p), Tail(s))

matchesPattern(path, pattern) ==
    IF pattern = <<>> THEN FALSE
    ELSE IF (\E i \in 1..Len(pattern) : pattern[i] = "*") /\ MatchString(pattern, path)
    THEN TRUE
    ELSE HasPrefix(path, pattern)

\* url.Parse(urlStr): an error, or a URL with its decoded path
BadUrl == [ok |-> FALSE, path |-> <<>>]
ParsedUrls == {BadUrl} \cup {[ok |-> TRUE, path |-> p] : p \in SeqsUpTo(PathChars, MaxPath)}

\* the disallow lists a rule group of the model can have
DisallowLists == {<<>>, << <<"/", "a">> >>, << <<"*", "a">> >>,
                  << <<"/", "a">>, <<"a">> >>}

\* RobotsRule values without a crawl delay
Groups == [UserAgent : Agents, Disallowed : DisallowLists, CrawlDelay : {0}]

\* the groups whose agent is the queried one, then the wildcard groups
ApplicableRulesSpecificOnly(rules, userAgent) ==
    LET specific(rule) == EqualFold(rule.UserAgent, userAgent)
        wildcard(rule) == rule.UserAgent = "*"
    IN IF SelectSeq(rules, specific) # <<>>
       THEN SelectSeq(rules, specific)
       ELSE SelectSeq(rules, wildcard)

ApplicableRules(rules, userAgent) ==
    LET specific(rule) == EqualFold(rule.UserAgent, userAgent)
        wildcard(rule) == rule.UserAgent = "*"
    IN SelectSeq(rules, specific) \o SelectSeq(rules, wildcard)

\* the first applicable group alone decides
RobotsIsAllowedFirstGroupDecides(rules, url, userAgent) ==
    IF Len(rules) = 0 THEN TRUE
    ELSE IF ~url.ok THEN FALSE
    ELSE LET path == IF url.path = <<>> THEN <<"/">> ELSE url.path
             applicableRules == ApplicableRules(rules, userAgent)
         IN ~ \E i \in 1..Len(applicableRules) :
                /\ i = 1
                /\ \E j \in 1..Len(applicableRules[i].Disallowed) :
                      matchesPattern(path, applicableRules[i].Disallowed[j])

\* RobotsParser.IsAllowed(urlStr, userAgent), url being url.Parse(urlStr)
RobotsIsAllowed(rules, url, userAgent) ==
    IF Len(rules) = 0 THEN TRUE
    ELSE IF ~url.ok THEN FALSE
    ELSE LET path == IF url.path = <<>> THEN <<"/">> ELSE url.path
             applicableRules == ApplicableRules(rules, userAgent)
         IN ~ \E i \in 1..Len(applicableRules) :
                \E j \in 1..Len(applicableRules[i].Disallowed) :
                    matchesPattern(path, applicableRules[i].Disallowed[j])

\* the tasks and the rate gate at rest, for the runs that follow one call
StagesAtRest ==
    /\ lines = <<>>
    /\ ch = [c \in Chans |-> <<>>]
    /\ closed = [c \in Chans |-> 0]
    /\ panicked = ""
    /\ reader = "none" /\ fetcher = <<>> /\ parser = <<>> /\ processor = <<>>
    /\ aggregator = "none" /\ closer = "none" /\ collector = "none" /\ main = "none"
    /\ wg = "none" /\ errorCount = 0 /\ hist = "none"

AtRest ==
    StagesAtRest /\ agg = "none" /\ mu = NoMu /\ caller = NoCaller /\ extract = NoExtract

Stages == <<lines, ch, closed, panicked, reader, fetcher, parser, processor,
            aggregator, closer, collector, main, wg, errorCount, hist>>

Tasks == <<Stages, agg, mu, caller, extract>>

\* RobotsParser.IsAllowed answers the question put to it
QueryIsAllowed ==
    /\ query.op = "IsAllowed" /\ query.pc = "call"
    /\ query' = [query EXCEPT !.pc = "done",
                              !.result = RobotsIsAllowed(query.rules, query.url, query.agent)]
    /\ UNCHANGED <<Tasks, unbounded, tokens, cancelled, call, startup>>

(* ---- one FetchURL call, step by step ---- *)
\* f.robots: nil until LoadRobotsTxt has stored a parser
NoRobots == [loaded |-> FALSE, rules |-> <<>>]

\* the policies of the calls followed: none loaded, one without rule groups,
\* one whose wildcard group disallows /a
CallPolicies ==
    {NoRobots,
     [loaded |-> TRUE, rules |-> <<>>],
     [loaded |-> TRUE,
      rules |-> <<[UserAgent |-> "*", Disallowed |-> << <<"/", "a">> >>, CrawlDelay |-> 0]>>]}

CallUrls == {BadUrl, [ok |-> TRUE, path |-> <<"/">>], [ok |-> TRUE, path |-> <<"/", "a">>]}

\* without a policy nothing is allowed
FetcherIsAllowedFailClosed(robots, url) ==
    IF ~robots.loaded THEN FALSE
    ELSE RobotsIsAllowed(robots.rules, url, UserAgent)

\* Fetcher.IsAllowed
FetcherIsAllowed(robots, url) ==
    IF ~robots.loaded THEN TRUE
    ELSE RobotsIsAllowed(robots.rules, url, UserAgent)

\* the outcomes of client.Do after which FetchURL tries again: with the 4xx
\* statuses among them
RetryableWith4xx(o) == o \in {"transport", "5xx", "4xx"}

\* the outcomes of client.Do after which FetchURL tries again
Retryable(o) == o \in {"transport", "5xx"}

\* a backoff that grows by BackoffBase with each attempt
BackoffSecondsLinear(attempt) == IF attempt + 1 > 30 THEN 30 ELSE attempt + 1

\* the sleep of backoff(attempt), in seconds (BackoffBase is one second)
BackoffSeconds(attempt) == IF 2 ^ attempt > 30 THEN 30 ELSE 2 ^ attempt

\* a job reaches fetcherWorker (which checks the policy and calls FetchURL) or
\* FetchURL is called directly
CallInit ==
    /\ AtRest
    /\ unbounded \in BOOLEAN
    /\ tokens \in (IF unbounded THEN {0} ELSE 0..Burst)
    /\ cancelled = FALSE
    /\ startup = NoStartup /\ query = NoQuery
    /\ \E via \in {"fetcherWorker", "FetchURL"}, robots \in CallPolicies, url \in CallUrls :
          call = [pc |-> IF via = "fetcherWorker" THEN "worker" ELSE "check",
                  via |-> via, robots |-> robots, url |-> url,
                  attempt |-> 0, lastErr |-> "", result |-> "", cause |-> "",
                  waiting |-> FALSE,
                  acquired |-> 0, attempts |-> 0, slept |-> <<>>, outcomes |-> <<>>]

OthersCall == <<Tasks, unbounded, cancelled, startup, query>>

\* fetcherWorker: allowed := fetch.IsAllowed(job.URL); a disallowed URL goes
\* to errorCh and FetchURL is not called
WorkerCheck ==
    /\ call.pc = "worker"
    /\ call' = IF FetcherIsAllowed(call.robots, call.url)
               THEN [call EXCEPT !.pc = "check"]
               ELSE [call EXCEPT !.pc = "returned", !.result = "denied"]
    /\ UNCHANGED <<OthersCall, tokens>>

\* a FetchURL that goes to its attempts without asking the policy
FetchCheckSkipped ==
    /\ call.pc = "check"
    /\ call' = [call EXCEPT !.pc = "wait"]
    /\ UNCHANGED <<OthersCall, tokens>>

\* FetchURL: if !f.IsAllowed(urlStr) { return nil, "URL disallowed by robots.txt" }
FetchCheck ==
    /\ call.pc = "check"
    /\ call' = IF FetcherIsAllowed(call.robots, call.url)
               THEN [call EXCEPT !.pc = "wait"]
               ELSE [call EXCEPT !.pc = "returned", !.result = "denied"]
    /\ UNCHANGED <<OthersCall, tokens>>

\* a Wait that looks at ctx only when it has to wait for a token
FetchWaitTokenFirst ==
    /\ call.pc = "wait"
    /\ \/ /\ cancelled /\ ~unbounded /\ tokens = 0
          /\ call' = [call EXCEPT !.pc = "returned", !.result = "ratelimit",
                                  !.waiting = FALSE]
          /\ tokens' = tokens
       \/ /\ unbounded \/ tokens > 0
          /\ tokens' = IF unbounded THEN tokens ELSE tokens - 1
          /\ call' = [call EXCEPT !.pc = "request", !.acquired = @ + 1,
                                  !.waiting = FALSE]
    /\ UNCHANGED OthersCall

\* f.rateLimiter.Wait(ctx).  On entry: an error if ctx is done already, also
\* for rate.Inf; else a token when one is there (always for rate.Inf); else
\* the call waits in a select on the limiter's timer and ctx.Done(), which
\* ends with the token or with the error, either of them when both are ready
FetchWait ==
    /\ call.pc = "wait"
    /\ \/ /\ cancelled
          /\ call' = [call EXCEPT !.pc = "returned", !.result = "ratelimit",
                                  !.waiting = FALSE]
          /\ tokens' = tokens
       \/ /\ ~cancelled \/ call.waiting
          /\ unbounded \/ tokens > 0
          /\ tokens' = IF unbounded THEN tokens ELSE tokens - 1
          /\ call' = [call EXCEPT !.pc = "request", !.acquired = @ + 1,
                                  !.waiting = FALSE]
       \/ /\ ~cancelled /\ ~call.waiting
          /\ ~unbounded /\ tokens = 0
          /\ call' = [call EXCEPT !.waiting = TRUE]
          /\ tokens' = tokens
    /\ UNCHANGED OthersCall

\* http.NewRequestWithContext(ctx, "GET", urlStr, nil) fails when urlStr does
\* not parse
FetchRequest ==
    /\ call.pc = "request"
    /\ call' = IF call.url.ok
               THEN [call EXCEPT !.pc = "do"]
               ELSE [call EXCEPT !.pc = "returned", !.result = "request"]
    /\ UNCHANGED <<OthersCall, tokens>>

\* resp, err := f.client.Do(req) and what FetchURL does with it: a transport
\* error or a 5xx is kept in lastErr for the backoff, a 4xx is returned as the
\* error, anything else returns the body
FetchDo ==
    /\ call.pc = "do"
    /\ \E o \in Outcomes :
          LET done == [call EXCEPT !.attempts = @ + 1, !.outcomes = Append(@, o)]
          IN call' = IF Retryable(o)
                     THEN [done EXCEPT !.pc = "backoff", !.lastErr = o]
                     ELSE IF o = "4xx"
                     THEN [done EXCEPT !.pc = "returned", !.lastErr = o,
                                       !.result = "status", !.cause = o]
                     ELSE [done EXCEPT !.pc = "returned", !.result = "body"]
    /\ UNCHANGED <<OthersCall, tokens>>

\* a loop that allows one attempt more: attempt <= MaxRetries
FetchSleepOneMore ==
    /\ call.pc = "backoff"
    /\ LET woken == [call EXCEPT !.slept = Append(@, BackoffSeconds(call.attempt)),
                                 !.attempt = @ + 1]
       IN call' = IF woken.attempt <= MaxRetries
                  THEN [woken EXCEPT !.pc = "wait"]
                  ELSE [woken EXCEPT !.pc = "returned", !.result = "exhausted",
                                     !.cause = call.lastErr]
    /\ UNCHANGED <<OthersCall, tokens>>

\* f.backoff(attempt); continue: the sleep, attempt++, and the loop test:
\* either the next attempt or "failed after 3 attempts: <lastErr>"
FetchSleep ==
    /\ call.pc = "backoff"
    /\ LET woken == [call EXCEPT !.slept = Append(@, BackoffSeconds(call.attempt)),
                                 !.attempt = @ + 1]
       IN call' = IF woken.attempt < MaxRetries
                  THEN [woken EXCEPT !.pc = "wait"]
                  ELSE [woken EXCEPT !.pc = "returned", !.result = "exhausted",
                                     !.cause = call.lastErr]
    /\ UNCHANGED <<OthersCall, tokens>>

\* cancel() while the call is under way
CallCancel ==
    /\ call.pc \notin {"none", "returned"}
    /\ ~cancelled
    /\ cancelled' = TRUE
    /\ UNCHANGED <<Tasks, unbounded, tokens, call, startup, query>>

\* the bucket refills while the call waits for a token
CallRefill ==
    /\ call.pc = "wait"
    /\ ~unbounded /\ tokens < Burst
    /\ tokens' = tokens + 1
    /\ UNCHANGED <<Tasks, unbounded, cancelled, call, startup, query>>

CallNext ==
    \/ WorkerCheck \/ FetchCheck \/ FetchWait \/ FetchRequest \/ FetchDo \/ FetchSleep
    \/ CallCancel \/ CallRefill

CallSpec == CallInit /\ [][CallNext]_vars

CallReturned == call.pc = "returned"

(* ---- main before the pipeline: New and LoadRobotsTxt ---- *)
\* rate.NewLimiter(limit, burst); a finite limit n/d is the pair <<n, d>>
NewLimiter(limit, burst) == [limit |-> limit, burst |-> burst]

\* fetcher.New(requestsPerSecond): the limiter it builds
New(requestsPerSecond) ==
    IF requestsPerSecond > 0
    THEN NewLimiter(<<requestsPerSecond, 1>>, requestsPerSecond + 1)
    ELSE NewLimiter("Inf", 0)

\* RobotsRule values with a crawl delay, in seconds
\* (strconv.Atoi takes a signed number, so a delay can be negative)
DelayGroups == [UserAgent : Agents, Disallowed : {<<>>}, CrawlDelay : (0 - 1)..MaxDelay]

\* the wildcard groups are asked before the groups of the agent
GetCrawlDelayWildcardFirst(rules, userAgent) ==
    LET specific == {i \in 1..Len(rules) :
                        EqualFold(rules[i].UserAgent, userAgent) /\ rules[i].CrawlDelay > 0}
        wildcard == {i \in 1..Len(rules) :
                        rules[i].UserAgent = "*" /\ rules[i].CrawlDelay > 0}
        first(S) == CHOOSE i \in S : \A j \in S : i <= j
    IN IF Len(rules) = 0 THEN 0
       ELSE IF wildcard # {} THEN rules[first(wildcard)].CrawlDelay
       ELSE IF specific # {} THEN rules[first(specific)].CrawlDelay
       ELSE 0

\* RobotsParser.GetCrawlDelay(userAgent), in seconds: the first group of the
\* agent with a positive delay, else the first such wildcard group, else 0
GetCrawlDelay(rules, userAgent) ==
    LET specific == {i \in 1..Len(rules) :
                        EqualFold(rules[i].UserAgent, userAgent) /\ rules[i].CrawlDelay > 0}
        wildcard == {i \in 1..Len(rules) :
                        rules[i].UserAgent = "*" /\ rules[i].CrawlDelay > 0}
        first(S) == CHOOSE i \in S : \A j \in S : i <= j
    IN IF Len(rules) = 0 THEN 0
       ELSE IF specific # {} THEN rules[first(specific)].CrawlDelay
       ELSE IF wildcard # {} THEN rules[first(wildcard)].CrawlDelay
       ELSE 0

\* what the request for robots.txt can give: no response, status 404, another
\* status that is not 200, or status 200 with a document that parses to rules
\* (or whose scanner fails)
Responses ==
    {[kind |-> k, rules |-> <<>>] : k \in {"error", "404", "500", "unreadable"}}
    \cup {[kind |-> "200", rules |-> r] : r \in SeqsUpTo(DelayGroups, MaxGroups)}

\* the crawl delay is applied whatever rate the user asked for
AppliesCrawlDelayAlways(userRateLimit) == TRUE

\* if f.userRateLimit == 0
AppliesCrawlDelay(userRateLimit) == userRateLimit = 0

\* main has parsed its flags; nothing is built yet
StartupInit ==
    /\ AtRest
    /\ unbounded = TRUE /\ tokens = 0 /\ cancelled = FALSE
    /\ call = NoCall /\ query = NoQuery
    /\ \E r \in 0..MaxRate, response \in Responses :
          startup = [pc |-> "new", load |-> "idle", RateLimit |-> r, response |-> response,
                     userRateLimit |-> 0, rateLimiter |-> NewLimiter("Inf", 0),
                     robots |-> NoRobots, replaced |-> 0, acquired |-> 0]

OthersStartup == <<Tasks, unbounded, tokens, cancelled, call, query>>

\* fetch := fetcher.New(cfg.RateLimit, cfg.Verbose)
MainNew ==
    /\ startup.pc = "new"
    /\ startup' = [startup EXCEPT !.pc = "load",
                                  !.userRateLimit = startup.RateLimit,
                                  !.rateLimiter = New(startup.RateLimit)]
    /\ UNCHANGED OthersStartup

\* fetch.LoadRobotsTxt(ctx, ...) is called and sends its request
LoadSend ==
    /\ startup.pc = "load" /\ startup.load = "idle"
    /\ startup' = [startup EXCEPT !.load = "sent"]
    /\ UNCHANGED OthersStartup

\* LoadRobotsTxt from the return of client.Do to its own return
LoadReturn ==
    /\ startup.load = "sent"
    /\ LET response == startup.response
           crawlDelay == GetCrawlDelay(response.rules, UserAgent)
       IN startup' =
            CASE response.kind \in {"error", "500", "unreadable"} ->
                   [startup EXCEPT !.load = "done"]
              [] response.kind = "404" ->
                   [startup EXCEPT !.load = "done",
                                   !.robots = [loaded |-> TRUE, rules |-> <<>>]]
              [] response.kind = "200" ->
                   IF AppliesCrawlDelay(startup.userRateLimit) /\ crawlDelay > 0
                   THEN [startup EXCEPT !.load = "done",
                                        !.robots = [loaded |-> TRUE, rules |-> response.rules],
                                        !.rateLimiter = NewLimiter(<<1, crawlDelay>>, 1),
                                        !.replaced = @ + 1]
                   ELSE [startup EXCEPT !.load = "done",
                                        !.robots = [loaded |-> TRUE, rules |-> response.rules]]
    /\ UNCHANGED OthersStartup

\* main goes on as soon as the request for robots.txt is under way
LoadRobotsTxtStarted == startup.load \in {"sent", "done"}

\* main goes on when LoadRobotsTxt has returned
LoadRobotsTxtReturned == startup.load = "done"

\* the interrupt handler is installed and runPipeline starts its workers
MainRunPipeline ==
    /\ startup.pc = "load"
    /\ LoadRobotsTxtReturned
    /\ startup' = [startup EXCEPT !.pc = "running"]
    /\ UNCHANGED OthersStartup

\* a FetchURL call of a fetch worker passes f.rateLimiter.Wait(ctx)
WorkerAcquire ==
    /\ startup.pc = "running"
    /\ startup.acquired < MaxAcquire
    /\ startup' = [startup EXCEPT !.acquired = @ + 1]
    /\ UNCHANGED OthersStartup

StartupNext == MainNew \/ LoadSend \/ LoadReturn \/ MainRunPipeline \/ WorkerAcquire

StartupSpec == StartupInit /\ [][StartupNext]_vars

(* ---- questions to the crawl policy, one call each ---- *)
\* the disallow patterns asked about: strings that can hold the wildcard
Patterns == SeqsUpTo(PathChars \cup {"*"}, MaxPattern)

\* the WorkerConfig of a call that has not answered
NoWorkers == [Fetchers |-> 0, Parsers |-> 0, Processors |-> 0]

\* the second argument whatever the first is
maxSecond(a, b) == b

\* max(a, b int)
max(a, b) == IF a > b THEN a ELSE b

\* a distribution whose remainder is not raised to one
calculateWorkerDistributionRemainder(totalWorkers) ==
    LET fetchers == max(1, (totalWorkers * 60) \div 100)
        parsers == max(1, (totalWorkers * 20) \div 100)
        processors == totalWorkers - fetchers - parsers
    IN  [Fetchers |-> fetchers, Parsers |-> parsers, Processors |-> processors]

\* calculateWorkerDistribution: 60% fetchers, 20% parsers, the remainder
\* processors, each at least one
calculateWorkerDistribution(totalWorkers) ==
    LET fetchers == max(1, (totalWorkers * 60) \div 100)
        parsers == max(1, (totalWorkers * 20) \div 100)
        processors == max(1, totalWorkers - fetchers - parsers)
    IN  [Fetchers |-> fetchers, Parsers |-> parsers, Processors |-> processors]

\* the lines of a robots.txt as bufio.Scanner hands them over: the text before
\* the first colon (the whole line when it has none) and the text after it;
\* tooLong is a line longer than the scanner's buffer
RobotsLines ==
    [key : {"User-Agent", "disallow", "Crawl-Delay", "Sitemap", "#Disallow"},
     colon : {TRUE}, value : {"", " *", "/a", " 2"}, tooLong : {FALSE}]
    \cup [key : {"", "text"}, colon : {FALSE}, value : {""}, tooLong : {FALSE}]
    \cup [key : {""}, colon : {FALSE}, value : {""}, tooLong : {TRUE}]

\* strings.TrimSpace on the texts of the model
TrimSpace(t) ==
    CASE t = " *" -> "*"
      [] t = " 2" -> "2"
      [] OTHER -> t

\* strings.ToLower on the keys and the characters of the model
ToLower(t) ==
    CASE t = "User-Agent" -> "user-agent"
      [] t = "A" -> "a"
      [] t = "Crawl-Delay" -> "crawl-delay"
      [] t = "#Disallow" -> "#disallow"
      [] OTHER -> t

\* strconv.Atoi on the values of the model
Atoi(t) ==
    IF t = "2" THEN [n |-> 2, err |-> FALSE] ELSE [n |-> 0, err |-> TRUE]

\* a parse that leaves the group open at the end of the input out
parseRobotsTxtUnflushed(content) ==
    LET RECURSIVE Scan(_, _, _)
        Scan(i, rules, currentRule) ==
            IF i > Len(content) THEN [rules |-> rules, err |-> ""]
            ELSE IF content[i].tooLong
            THEN [rules |-> rules \o currentRule, err |-> "token too long"]
            ELSE
            LET key == ToLower(TrimSpace(content[i].key))
                value == TrimSpace(content[i].value)
                line == TrimSpace(content[i].key)
            IN  IF (line = "" /\ ~content[i].colon) \/ line = "#Disallow"
                THEN Scan(i + 1, rules, currentRule)
                ELSE IF ~content[i].colon THEN Scan(i + 1, rules, currentRule)
                ELSE IF key = "user-agent"
                THEN Scan(i + 1, rules \o currentRule,
                          <<[UserAgent |-> value, Disallowed |-> <<>>, CrawlDelay |-> 0]>>)
                ELSE IF key = "disallow" /\ currentRule # <<>> /\ value # ""
                THEN Scan(i + 1, rules,
                          <<[currentRule[1] EXCEPT !.Disallowed = Append(@, value)]>>)
                ELSE IF key = "crawl-delay" /\ currentRule # <<>> /\ ~Atoi(value).err
                THEN Scan(i + 1, rules,
                          <<[currentRule[1] EXCEPT !.CrawlDelay = Atoi(value).n]>>)
                ELSE Scan(i + 1, rules, currentRule)
    IN  Scan(1, <<>>, <<>>)

\* parseRobotsTxt: the rule groups of a robots.txt and scanner.Err();
\* currentRule is the open group, <<>> for the nil pointer
parseRobotsTxt(content) ==
    LET RECURSIVE Scan(_, _, _)
        Scan(i, rules, currentRule) ==
            IF i > Len(content) THEN [rules |-> rules \o currentRule, err |-> ""]
            ELSE IF content[i].tooLong
            THEN [rules |-> rules \o currentRule, err |-> "token too long"]
            ELSE
            LET key == ToLower(TrimSpace(content[i].key))
                value == TrimSpace(content[i].value)
                line == TrimSpace(content[i].key)
            IN  IF (line = "" /\ ~content[i].colon) \/ line = "#Disallow"
                THEN Scan(i + 1, rules, currentRule)
                ELSE IF ~content[i].colon THEN Scan(i + 1, rules, currentRule)
                ELSE IF key = "user-agent"
                THEN Scan(i + 1, rules \o currentRule,
                          <<[UserAgent |-> value, Disallowed |-> <<>>, CrawlDelay |-> 0]>>)
                ELSE IF key = "disallow" /\ currentRule # <<>> /\ value # ""
                THEN Scan(i + 1, rules,
                          <<[currentRule[1] EXCEPT !.Disallowed = Append(@, value)]>>)
                ELSE IF key = "crawl-delay" /\ currentRule # <<>> /\ ~Atoi(value).err
                THEN Scan(i + 1, rules,
                          <<[currentRule[1] EXCEPT !.CrawlDelay = Atoi(value).n]>>)
                ELSE Scan(i + 1, rules, currentRule)
    IN  Scan(1, <<>>, <<>>)

\* the characters of a text: two letters, one of them in both cases, and a
\* character that is no letter
TextChars == {"a", "A", "b", "-"}

\* the word banks WordBank.New can build: sets of lower-case words
WordBanks == SUBSET {<<"a">>, <<"a", "b">>, <<"b", "b">>}

\* wordRegex.FindAllString(text, -1) for [a-zA-Z]+: the successive longest
\* runs of letters, left to right
FindAllString(text) ==
    LET RECURSIVE Scan(_, _, _)
        Scan(i, run, found) ==
            IF i > Len(text)
            THEN IF run = <<>> THEN found ELSE Append(found, run)
            ELSE IF text[i] \in {"a", "A", "b"}
            THEN Scan(i + 1, Append(run, text[i]), found)
            ELSE Scan(i + 1, <<>>, IF run = <<>> THEN found ELSE Append(found, run))
    IN  Scan(1, <<>>, <<>>)

\* WordBank.IsValid: the word, lower-cased, is in the bank
IsValid(words, word) ==
    IF word = <<>> THEN FALSE
    ELSE [i \in 1..Len(word) |-> ToLower(word[i])] \in words

\* a count that keeps the case of the word as it stands in the text
ProcessTextCaseSensitive(wordBank, text) ==
    LET words == FindAllString(text)
        RECURSIVE Range(_, _)
        Range(k, wordCounts) ==
            IF k > Len(words) THEN wordCounts
            ELSE LET word == words[k]
                 IN  IF IsValid(wordBank, word)
                     THEN Range(k + 1,
                                IF word \in DOMAIN wordCounts
                                THEN [wordCounts EXCEPT ![word] = @ + 1]
                                ELSE wordCounts @@ (word :> 1))
                     ELSE Range(k + 1, wordCounts)
    IN  Range(1, [w \in {} |-> 0])

\* Processor.ProcessText: the map from each valid word, lower-cased, to the
\* number of its matches
ProcessText(wordBank, text) ==
    LET words == FindAllString(text)
        RECURSIVE Range(_, _)
        Range(k, wordCounts) ==
            IF k > Len(words) THEN wordCounts
            ELSE LET word == [i \in 1..Len(words[k]) |-> ToLower(words[k][i])]
                 IN  IF IsValid(wordBank, word)
                     THEN Range(k + 1,
                                IF word \in DOMAIN wordCounts
                                THEN [wordCounts EXCEPT ![word] = @ + 1]
                                ELSE wordCounts @@ (word :> 1))
                     ELSE Range(k + 1, wordCounts)
    IN  Range(1, [w \in {} |-> 0])

\* a question not yet answered: to RobotsParser.IsAllowed, to Fetcher.IsAllowed,
\* to matchesPattern or to RobotsParser.GetCrawlDelay
QueryInit ==
    /\ AtRest
    /\ unbounded = TRUE /\ tokens = 0 /\ cancelled = FALSE
    /\ call = NoCall /\ startup = NoStartup
    /\ \/ \E rules \in SeqsUpTo(Groups, MaxGroups), url \in ParsedUrls, agent \in Agents :
             query = [op |-> "IsAllowed", rules |-> rules, url |-> url, agent |-> agent,
                      pc |-> "call", result |-> FALSE]
       \/ \E robots \in CallPolicies, url \in ParsedUrls :
             query = [op |-> "Fetcher.IsAllowed", robots |-> robots, url |-> url,
                      pc |-> "call", result |-> FALSE]
       \/ \E path \in SeqsUpTo(PathChars, MaxPath), pattern \in Patterns :
             query = [op |-> "matchesPattern", path |-> path, pattern |-> pattern,
                      pc |-> "call", result |-> FALSE]
       \/ \E rules \in SeqsUpTo(DelayGroups, MaxGroups), agent \in Agents :
             query = [op |-> "GetCrawlDelay", rules |-> rules, agent |-> agent,
                      pc |-> "call", result |-> 0]
       \/ \E content \in SeqsUpTo(RobotsLines, MaxRobotsLines) :
             query = [op |-> "parseRobotsTxt", lines |-> content,
                      pc |-> "call", result |-> [rules |-> <<>>, err |-> ""]]
       \/ \E wordBank \in WordBanks, text \in SeqsUpTo(TextChars, MaxText) :
             query = [op |-> "ProcessText", wordBank |-> wordBank, text |-> text,
                      pc |-> "call", result |-> [w \in {} |-> 0]]
       \/ \E totalWorkers \in 1..MaxWorkers :
             query = [op |-> "calculateWorkerDistribution", totalWorkers |-> totalWorkers,
                      pc |-> "call", result |-> NoWorkers]

OthersQuery == <<Tasks, unbounded, tokens, cancelled, call, startup>>

\* Fetcher.IsAllowed answers
QueryFetcherIsAllowed ==
    /\ query.op = "Fetcher.IsAllowed" /\ query.pc = "call"
    /\ query' = [query EXCEPT !.pc = "done",
                              !.result = FetcherIsAllowed(query.robots, query.url)]
    /\ UNCHANGED OthersQuery

\* matchesPattern answers
QueryMatchesPattern ==
    /\ query.op = "matchesPattern" /\ query.pc = "call"
    /\ query' = [query EXCEPT !.pc = "done",
                              !.result = matchesPattern(query.path, query.pattern)]
    /\ UNCHANGED OthersQuery

\* RobotsParser.GetCrawlDelay answers
QueryGetCrawlDelay ==
    /\ query.op = "GetCrawlDelay" /\ query.pc = "call"
    /\ query' = [query EXCEPT !.pc = "done",
                              !.result = GetCrawlDelay(query.rules, query.agent)]
    /\ UNCHANGED OthersQuery

\* calculateWorkerDistribution answers
QueryWorkerDistribution ==
    /\ query.op = "calculateWorkerDistribution" /\ query.pc = "call"
    /\ query' = [query EXCEPT !.pc = "done",
                              !.result = calculateWorkerDistribution(query.totalWorkers)]
    /\ UNCHANGED OthersQuery

\* parseRobotsTxt answers
QueryParseRobotsTxt ==
    /\ query.op = "parseRobotsTxt" /\ query.pc = "call"
    /\ query' = [query EXCEPT !.pc = "done", !.result = parseRobotsTxt(query.lines)]
    /\ UNCHANGED OthersQuery

\* Processor.ProcessText answers
QueryProcessText ==
    /\ query.op = "ProcessText" /\ query.pc = "call"
    /\ query' = [query EXCEPT !.pc = "done",
                              !.result = ProcessText(query.wordBank, query.text)]
    /\ UNCHANGED OthersQuery

QueryNext ==
    \/ QueryIsAllowed \/ QueryFetcherIsAllowed \/ QueryMatchesPattern
    \/ QueryGetCrawlDelay \/ QueryWorkerDistribution \/ QueryParseRobotsTxt
    \/ QueryProcessText

QuerySpec == QueryInit /\ [][QueryNext]_vars

(* ---- the Aggregator under concurrent callers ---- *)
\* aggregator.New: empty counts, zero totals
NewAggregator ==
    [globalWordCounts |-> NoCounts, totalWordsProcessed |-> 0, totalEssaysProcessed |-> 0]

\* the keys of a word-count map
Keys(wordCounts) == {w \in Words : wordCounts[w] > 0}

\* the word counts given to AddResult: none, one word of the bank MaxCount
\* times, or every word MaxCount times
ResultCounts ==
    DocCounts \cup {[w \in Words |-> IF w = word THEN MaxCount ELSE 0] : word \in Words}

\* a GetStats or GetTopWords call before it has read anything and after it
\* has handed its result to its caller
Reading(pc) ==
    [pc |-> pc, op |-> "", n |-> 0, seen |-> NewAggregator, stats |-> <<>>, top |-> <<>>]

\* every caller is about to call; each AddResult has its word counts
AggInit ==
    /\ StagesAtRest
    /\ unbounded = TRUE /\ tokens = 0 /\ cancelled = FALSE
    /\ call = NoCall /\ startup = NoStartup /\ query = NoQuery
    /\ agg = NewAggregator
    /\ mu = NoMu /\ extract = NoExtract
    /\ \E wordCounts \in [1..NumWriters -> ResultCounts] :
          caller = [add |-> [w \in 1..NumWriters |->
                               [pc |-> "call", wordCounts |-> wordCounts[w], todo |-> {},
                                word |-> "", tmp |-> 0, articleWordCount |-> 0]],
                    read |-> [r \in 1..NumReaders |-> Reading("call")]]

OthersAgg == <<Stages, unbounded, tokens, cancelled, call, startup, query, extract>>

\* a.mu.Lock() returns whoever holds the mutex
CanLockAny == TRUE

\* a.mu.Lock() returns: no writer and no reader holds the mutex
CanLock == mu.writer = 0 /\ mu.readers = 0

\* a.mu.RLock() returns while a writer holds the mutex
CanRLockAny == TRUE

\* a.mu.RLock() returns: no writer holds the mutex
CanRLock == mu.writer = 0

\* AddResult: a.mu.Lock()
AddLock(w) ==
    /\ caller.add[w].pc = "call"
    /\ CanLock
    /\ mu' = [mu EXCEPT !.writer = w]
    /\ caller' = [caller EXCEPT !.add[w].pc = "range",
                                !.add[w].todo = Keys(caller.add[w].wordCounts)]
    /\ UNCHANGED <<OthersAgg, agg>>

\* the range loop reaches a word, in the order the map gives, and reads its
\* global count
AddLoad(w) ==
    /\ caller.add[w].pc = "range"
    /\ \E word \in caller.add[w].todo :
          caller' = [caller EXCEPT !.add[w].pc = "store",
                                  !.add[w].word = word,
                                  !.add[w].tmp = agg.globalWordCounts[word]]
    /\ UNCHANGED <<OthersAgg, agg, mu>>

\* the word's count goes into articleWordCount but not into the global counts
AddStoreUncounted(w) ==
    /\ caller.add[w].pc = "store"
    /\ LET word == caller.add[w].word
           count == caller.add[w].wordCounts[word]
       IN caller' = [caller EXCEPT !.add[w].pc = "range",
                                   !.add[w].todo = @ \ {word},
                                   !.add[w].articleWordCount = @ + count]
    /\ UNCHANGED <<OthersAgg, agg, mu>>

\* a.globalWordCounts[word] += count; articleWordCount += count
AddStore(w) ==
    /\ caller.add[w].pc = "store"
    /\ LET word == caller.add[w].word
           count == caller.add[w].wordCounts[word]
       IN /\ agg' = [agg EXCEPT !.globalWordCounts[word] = caller.add[w].tmp + count]
          /\ caller' = [caller EXCEPT !.add[w].pc = "range",
                                      !.add[w].todo = @ \ {word},
                                      !.add[w].articleWordCount = @ + count]
    /\ UNCHANGED <<OthersAgg, mu>>

\* after the loop: the two totals
AddTotals(w) ==
    /\ caller.add[w].pc = "range" /\ caller.add[w].todo = {}
    /\ agg' = [agg EXCEPT !.totalWordsProcessed = @ + caller.add[w].articleWordCount,
                          !.totalEssaysProcessed = @ + 1]
    /\ caller' = [caller EXCEPT !.add[w].pc = "unlock"]
    /\ UNCHANGED <<OthersAgg, mu>>

\* the deferred a.mu.Unlock()
AddUnlock(w) ==
    /\ caller.add[w].pc = "unlock"
    /\ mu' = [mu EXCEPT !.writer = 0]
    /\ caller' = [caller EXCEPT !.add[w].pc = "done"]
    /\ UNCHANGED <<OthersAgg, agg>>

\* GetStats or GetTopWords(n): a.mu.RLock()
ReadRLock(r) ==
    /\ caller.read[r].pc = "call"
    /\ CanRLock
    /\ mu' = [mu EXCEPT !.readers = @ + 1]
    /\ \E op \in {"GetStats", "GetTopWords"}, n \in 0..MaxTop :
          /\ op = "GetStats" => n = 0
          /\ caller' = [caller EXCEPT !.read[r].pc = "read", !.read[r].op = op,
                                      !.read[r].n = n]
    /\ UNCHANGED <<OthersAgg, agg>>

\* GetStats reads the two totals and the size of the map
ReadGetStats(r) ==
    /\ caller.read[r].pc = "read" /\ caller.read[r].op = "GetStats"
    /\ caller' = [caller EXCEPT
          !.read[r].pc = "unlock",
          !.read[r].seen = agg,
          !.read[r].stats = [processed |-> agg.totalEssaysProcessed,
                             totalWords |-> agg.totalWordsProcessed,
                             uniqueWords |-> Cardinality(Keys(agg.globalWordCounts))]]
    /\ UNCHANGED <<OthersAgg, agg, mu>>

\* the order of < on the strings of the word bank
WordLess(a, b) == a = "computer" /\ b = "science"

\* the words are compared alone
LessByWord(a, b) == WordLess(a.Word, b.Word)

\* the less function given to sort.Slice
Less(a, b) ==
    IF a.Count # b.Count THEN a.Count > b.Count
    ELSE WordLess(a.Word, b.Word)

\* sort.Slice(words, less), as an insertion sort
RECURSIVE InsertSorted(_, _)
InsertSorted(x, s) ==
    IF s = <<>> THEN <<x>>
    ELSE IF Less(x, Head(s)) THEN <<x>> \o s
    ELSE <<Head(s)>> \o InsertSorted(x, Tail(s))

RECURSIVE SortSlice(_)
SortSlice(words) ==
    IF words = <<>> THEN <<>>
    ELSE InsertSorted(Head(words), SortSlice(Tail(words)))

\* the orders in which a range over the map can give its keys
KeyOrders(keys) ==
    {s \in SeqsUpTo(keys, Cardinality(keys)) :
        Len(s) = Cardinality(keys) /\ \A i, j \in 1..Len(s) : i # j => s[i] # s[j]}

\* GetTopWords(n) copies the map into a slice, sorts it and cuts it to n
ReadGetTopWords(r) ==
    /\ caller.read[r].pc = "read" /\ caller.read[r].op = "GetTopWords"
    /\ \E order \in KeyOrders(Keys(agg.globalWordCounts)) :
          LET words == [i \in 1..Len(order) |->
                          [Word |-> order[i], Count |-> agg.globalWordCounts[order[i]]]]
              sorted == SortSlice(words)
              n == IF caller.read[r].n > Len(sorted) THEN Len(sorted) ELSE caller.read[r].n
          IN caller' = [caller EXCEPT !.read[r].pc = "unlock",
                                      !.read[r].seen = agg,
                                      !.read[r].top = SubSeq(sorted, 1, n)]
    /\ UNCHANGED <<OthersAgg, agg, mu>>

\* the deferred a.mu.RUnlock(), and the return
ReadRUnlock(r) ==
    /\ caller.read[r].pc = "unlock"
    /\ mu' = [mu EXCEPT !.readers = @ - 1]
    /\ caller' = [caller EXCEPT !.read[r] = Reading("done")]
    /\ UNCHANGED <<OthersAgg, agg>>

AddNext(w) == AddLock(w) \/ AddLoad(w) \/ AddStore(w) \/ AddTotals(w) \/ AddUnlock(w)

ReadNext(r) == ReadRLock(r) \/ ReadGetStats(r) \/ ReadGetTopWords(r) \/ ReadRUnlock(r)

AggNext ==
    \/ \E w \in 1..NumWriters : AddNext(w)
    \/ \E r \in 1..NumReaders : ReadNext(r)

AggSpec == AggInit /\ [][AggNext]_vars

(* ---- the Parser under concurrent callers ---- *)
\* the documents given to ExtractText: whether the reader can be read to its
\* end, and what the page holds under "article header" and under
\* [data-article-body='true']: no element, elements with blank text only,
\* elements with text
Documents ==
    [readable : BOOLEAN, header : {"none", "text"}, body : {"none", "blank", "text"}]

\* the content selectors, in order
contentSelectors ==
    <<"article header, [data-article-body='true']", "[data-article-body='true']">>

\* strings.TrimSpace(doc.Find(selector).Text()): "none" when content.Length()
\* is 0, "blank" when the trimmed text is empty
Find(doc, selector) ==
    IF selector = "[data-article-body='true']" THEN doc.body
    ELSE IF "text" \in {doc.header, doc.body} THEN "text"
    ELSE doc.body

\* parser.New, and NumExtractors goroutines about to call ExtractText
ExtractInit ==
    /\ StagesAtRest /\ agg = "none" /\ mu = NoMu /\ caller = NoCaller
    /\ unbounded = TRUE /\ tokens = 0 /\ cancelled = FALSE
    /\ call = NoCall /\ startup = NoStartup /\ query = NoQuery
    /\ \E docs \in [1..NumExtractors -> Documents] :
          extract = [failedCount |-> 0,
                     calls |-> [c \in 1..NumExtractors |->
                                  [pc |-> "call", doc |-> docs[c], sel |-> 1,
                                   text |-> "", err |-> ""]]]

OthersExtract ==
    <<Stages, agg, mu, caller, unbounded, tokens, cancelled, call, startup, query>>

\* goquery.NewDocumentFromReader: a reader that fails ends the call
ExtractParse(c) ==
    /\ extract.calls[c].pc = "call"
    /\ extract' = IF extract.calls[c].doc.readable
                  THEN [extract EXCEPT !.calls[c].pc = "select"]
                  ELSE [extract EXCEPT !.calls[c].pc = "returned",
                                       !.calls[c].err = "parsing HTML"]
    /\ UNCHANGED OthersExtract

\* one round of the loop over contentSelectors
ExtractSelect(c) ==
    /\ extract.calls[c].pc = "select"
    /\ LET this == extract.calls[c]
       IN  extract' =
               IF Find(this.doc, contentSelectors[this.sel]) = "text"
               THEN [extract EXCEPT !.calls[c].pc = "returned", !.calls[c].text = "text"]
               ELSE IF this.sel < Len(contentSelectors)
               THEN [extract EXCEPT !.calls[c].sel = @ + 1]
               ELSE [extract EXCEPT !.calls[c].pc = "failed"]
    /\ UNCHANGED OthersExtract

\* atomic.AddInt64(&p.failedCount, 1) and the return of the error
ExtractFailed(c) ==
    /\ extract.calls[c].pc = "failed"
    /\ extract' = [extract EXCEPT !.failedCount = @ + 1,
                                  !.calls[c].pc = "returned",
                                  !.calls[c].err = "failed to extract clean content"]
    /\ UNCHANGED OthersExtract

ExtractNext ==
    \E c \in 1..NumExtractors : ExtractParse(c) \/ ExtractSelect(c) \/ ExtractFailed(c)

ExtractSpec == ExtractInit /\ [][ExtractNext]_vars

(* ---- cascading closure ---- *)
StageExited(c) ==
    CASE c = "htmlCh" -> \A f \in Fetchers : fetcher[f].pc = "done"
      [] c = "textCh" -> \A p \in Parsers : parser[p].pc = "done"
      [] c = "resultsCh" -> \A p \in Processors : processor[p].pc = "done"

\* C1: a stage's output channel (htmlCh, textCh, resultsCh) is closed only
\* after every worker of the stage that produces into it has exited.
C1_ClosedAfterProducersExit ==
    \A c \in Closers : closed[c] > 0 => StageExited(c)

\* a run that aggregated an article and whose three stage outputs are closed
C1_Witness ==
    /\ \A c \in Closers : closed[c] = 1
    /\ agg.totalEssaysProcessed > 0
    /\ \A f \in Fetchers : fetcher[f].pc = "done"

\* C2: no task ever sends on a closed channel, with or without cancellation.
C2_NoSendOnClosed == panicked # "send on closed channel"

\* a cancelled run in which errors were sent and counted, htmlCh and errorCh
\* are closed and a fetched document was left behind in htmlCh
C2_Witness ==
    /\ cancelled /\ errorCount > 0
    /\ closed["htmlCh"] = 1 /\ closed["errorCh"] = 1
    /\ Len(ch["htmlCh"]) > 0

\* C5: each of the five channels is closed at most once.
C5_ClosedAtMostOnce ==
    /\ \A c \in Chans : closed[c] <= 1
    /\ panicked # "close of closed channel"

\* every channel has been closed, in a run that was cancelled
C5_Witness == cancelled /\ \A c \in Chans : closed[c] = 1

(* ---- the report after runPipeline has returned ---- *)
\* the fold of the results whose AddResult has completed
FoldAdded ==
    [globalWordCounts |->
         [w \in Words |-> SumOver(Urls, [u \in Urls |-> hist.addedWc[u][w]])],
     totalWordsProcessed |->
         SumOver(Urls, [u \in Urls |-> SumOver(Words, hist.addedWc[u])]),
     totalEssaysProcessed |-> SumOver(Urls, hist.added)]

\* C7: when runPipeline has returned, no AddResult is in progress and none
\* happens later, and the Aggregator holds the fold of exactly the results
\* whose aggregation completed.
C7_ReportIsFoldOfCompleted ==
    /\ [](Returned => (aggregator.pc = "done" /\ agg = FoldAdded))
    /\ [][Returned => (agg' = agg /\ hist'.added = hist.added)]_vars

\* a cancelled run has returned with one article aggregated and a result
\* still queued in resultsCh
C7_Witness ==
    /\ Returned /\ cancelled
    /\ agg.totalEssaysProcessed = 1 /\ agg.totalWordsProcessed > 0
    /\ Len(ch["resultsCh"]) > 0

(* ---- every URL has one outcome ---- *)
\* the URL on line u was put on urlCh
WasRead(u) == u <= Len(lines) /\ lines[u] # "blank" /\ u < reader.idx

\* C8: in a run without cancellation every URL read is aggregated exactly once
\* or counted exactly once by the error sink, and at return (no reading error)
\* URLs read = totalEssaysProcessed + errorCount.
C8_OneOutcomePerUrl ==
    (Returned /\ ~cancelled) =>
        /\ \A u \in Urls :
              hist.added[u] + hist.errored[u] = (IF WasRead(u) THEN 1 ELSE 0)
        /\ reader.err = "" =>
              reader.urlCount = agg.totalEssaysProcessed + errorCount

\* an uncancelled run of two URLs has returned: one aggregated, one counted as
\* an error
C8_Witness ==
    /\ Returned /\ ~cancelled /\ reader.err = ""
    /\ reader.urlCount = 2
    /\ agg.totalEssaysProcessed = 1 /\ errorCount = 1

(* ---- per-item failures ---- *)
\* C9: a per-item failure (policy denial, fetch failure, extraction failure)
\* never sets the cancellation signal and never makes a worker exit its loop:
\* the worker that handled it goes on to take the next item.
C9_FailureKeepsWorkerRunning ==
    [][/\ (cancelled' /\ ~cancelled) =>
              UNCHANGED <<ch, reader, fetcher, parser, processor, aggregator>>
       /\ \A f \in Fetchers :
              (/\ fetcher[f].pc = "reject" \/ (fetcher[f].pc = "send" /\ fetcher[f].err # "")
               /\ fetcher'[f] # fetcher[f])
              => (fetcher'[f].pc = "loop" \/ cancelled)
       /\ \A p \in Parsers :
              (parser[p].pc = "send" /\ parser[p].err # "" /\ parser'[p] # parser[p])
              => (parser'[p].pc = "loop" \/ cancelled)
       /\ \A p \in Processors :
              (processor[p].pc = "reject" /\ processor'[p] # processor[p])
              => (processor'[p].pc = "loop" \/ cancelled)
      ]_vars

\* without cancellation the processor reported the failure of the allowed URL
\* on line 1 and has then taken the item of line 2
C9_Witness ==
    /\ ~cancelled
    /\ Len(lines) = 2 /\ lines[1] = "allowed"
    /\ hist.errored[1] = 1
    /\ \E p \in Processors : processor[p].url = 2

(* ---- waits and the cancellation signal ---- *)
\* C6: every blocking wait of the reader, the workers and the aggregator,
\* the retry backoff inside a fetch included, observes the cancellation
\* signal: once it is set no task continues or begins a wait that ignores it.
\* The selects of the tasks and rateLimiter.Wait all have a ctx.Done() case;
\* the position "backoff" is the one wait that has none.
C6_EveryWaitObservesCancel ==
    cancelled => \A f \in Fetchers : fetcher[f].pc # "backoff"

(* ---- the empty source list ---- *)
NoUrlLines == \A i \in 1..Len(lines) : lines[i] = "blank"

\* C10: with a source list that has no URL line (and can be read), no fetch
\* is performed and the run returns with totalEssaysProcessed = 0,
\* totalWordsProcessed = 0, an empty word-frequency map and errorCount = 0.
C10_EmptySourceEmptyReport ==
    (NoUrlLines /\ reader.err \notin {"open", "read"}) =>
        /\ \A f \in Fetchers : fetcher[f].pc \in {"loop", "done"}
        /\ Returned =>
              /\ agg = [globalWordCounts |-> NoCounts, totalWordsProcessed |-> 0,
                        totalEssaysProcessed |-> 0]
              /\ errorCount = 0

(* ---- termination ---- *)
\* C3: once the cancellation signal is set, runPipeline eventually returns:
\* no reader, worker, aggregator or collector stays blocked forever.
C3_CancelledRunReturns ==
    /\ []((cancelled /\ ~Returned) => ENABLED Step)
    /\ cancelled ~> Returned

\* a cancelled run has returned and left a fetched document and a queued URL
\* behind
C3_Witness ==
    /\ Returned /\ cancelled
    /\ Len(ch["urlCh"]) > 0 /\ Len(ch["htmlCh"]) > 0

\* C4: without cancellation the pipeline terminates: urlCh, htmlCh, textCh and
\* resultsCh are closed in that order, the aggregator has drained resultsCh,
\* the error collector has stopped, and runPipeline returns.
C4_GracefulTermination ==
    /\ [](~cancelled =>
             /\ closed["htmlCh"] > 0 => closed["urlCh"] > 0
             /\ closed["textCh"] > 0 => closed["htmlCh"] > 0
             /\ closed["resultsCh"] > 0 => closed["textCh"] > 0)
    /\ []((Returned /\ ~cancelled) =>
             /\ \A c \in Chans : closed[c] = 1 /\ ch[c] = <<>>
             /\ aggregator.pc = "done"
             /\ collector = "done")
    /\ []((~cancelled /\ ~Returned) => ENABLED Step)
    /\ <>(cancelled \/ Returned)

\* an uncancelled run of two URLs has returned with both aggregated
C4_Witness ==
    /\ Returned /\ ~cancelled
    /\ agg.totalEssaysProcessed = 2

(* ---- one consumer per envelope ---- *)
\* the envelopes for URL u on channel c
OnChan(c, u) == Cardinality({i \in 1..Len(ch[c]) : ch[c][i].url = u})

\* the tasks that hold the item of URL u: the worker that received it and has
\* not yet passed it on, or the aggregator inside AddResult
HeldBy(u) ==
    Cardinality({f \in Fetchers : fetcher[f].url = u})
    + Cardinality({p \in Parsers : parser[p].url = u})
    + Cardinality({p \in Processors : processor[p].url = u})
    + (IF aggregator.url = u THEN 1 ELSE 0)

\* the places of the pipeline where the item of URL u is now, and the times
\* it has left the pipeline through AddResult or the error sink
Copies(u) ==
    OnChan("urlCh", u) + OnChan("htmlCh", u) + OnChan("textCh", u)
    + OnChan("resultsCh", u) + OnChan("errorCh", u) + HeldBy(u)

\* C11: a URL read from the source is put on urlCh once and each of its
\* envelopes is consumed by at most one worker: at any moment the item is in
\* at most one place (one queue slot or one task), it is aggregated or
\* counted as an error at most once, it never comes back after it has left,
\* and until cancellation fires it is in exactly one place or has left exactly
\* once.
C11_OneConsumerPerEnvelope ==
    \A u \in Urls :
        LET n == Copies(u) + hist.added[u] + hist.errored[u]
        IN /\ n <= (IF WasRead(u) THEN 1 ELSE 0)
           /\ (~cancelled /\ WasRead(u)) => n = 1

\* after cancellation the item of line 1 has been abandoned (it is in no
\* place and has no outcome) while a fetch worker is retrying the URL of line 2
C11_Witness ==
    /\ cancelled
    /\ WasRead(1) /\ WasRead(2)
    /\ Copies(1) + hist.added[1] + hist.errored[1] = 0
    /\ \E f \in Fetchers : fetcher[f].url = 2 /\ fetcher[f].attempt > 0

(* ---- cancellation during the rate-gate wait ---- *)
\* C18: an item whose fetch was aborted because cancellation fired during the
\* rate-gate wait is never delivered to the error sink (and so never counted
\* in errorCount).
C18_RateLimitCancelNotAnError ==
    \A i \in 1..Len(ch["errorCh"]) : ch["errorCh"][i].err # "ratelimit"

(* ---- a failing reader ---- *)
\* C19: when the URL-reading task has failed (the source list cannot be
\* opened, or a read error occurred), the cancellation signal is set and
\* runPipeline does not finish as a normal run.
C19_ReaderFailureIsFatal ==
    (reader.pc = "done" /\ reader.err \in {"open", "read"}) =>
        (cancelled /\ ~Returned)

(* ---- the permission check ---- *)
\* the rule group applies to the agent: same name up to case, or the wildcard
AppliesTo(rule, agent) == EqualFold(rule.UserAgent, agent) \/ rule.UserAgent = "*"

\* C20: with at least one rule group and a parseable URL, IsAllowed is false
\* exactly when a disallow pattern of a group of the queried agent (up to
\* case) or of a wildcard group matches the path, "/" standing for an empty
\* path; the groups of other named agents do not change the answer.
C20_DeniedIffApplicableGroupMatches ==
    (query.op = "IsAllowed" /\ query.pc = "done"
        /\ Len(query.rules) > 0 /\ query.url.ok) =>
        LET path == IF query.url.path = <<>> THEN <<"/">> ELSE query.url.path
            applies(rule) == AppliesTo(rule, query.agent)
        IN /\ query.result = FALSE <=>
                \E i \in 1..Len(query.rules) :
                    /\ AppliesTo(query.rules[i], query.agent)
                    /\ \E j \in 1..Len(query.rules[i].Disallowed) :
                          matchesPattern(path, query.rules[i].Disallowed[j])
           /\ query.result =
                  RobotsIsAllowed(SelectSeq(query.rules, applies), query.url, query.agent)

\* the agent's own group allows the path, a wildcard group disallows it and a
\* group of another agent stands between them: the answer is false
C20_Witness ==
    /\ query.op = "IsAllowed" /\ query.pc = "done"
    /\ query.agent = "essayanalyzer/1.0" /\ query.url = [ok |-> TRUE, path |-> <<"/", "a">>]
    /\ Len(query.rules) = 2
    /\ query.rules[1] = [UserAgent |-> "EssayAnalyzer/1.0", Disallowed |-> <<>>, CrawlDelay |-> 0]
    /\ query.rules[2] = [UserAgent |-> "*", Disallowed |-> << <<"*", "a">> >>, CrawlDelay |-> 0]
    /\ query.result = FALSE

(* ---- FetchURL: policy, tokens, attempts ---- *)
\* the policy loaded for the call disallows its URL
Disallowed == call.robots.loaded /\ ~RobotsIsAllowed(call.robots.rules, call.url, UserAgent)

\* C12: for a URL that the loaded policy disallows, neither fetcherWorker nor
\* FetchURL acquires a token or issues a request: the call ends with the
\* policy error and the bucket is never changed.
C12_DeniedTouchesNothing ==
    /\ [](Disallowed =>
            /\ call.acquired = 0 /\ call.attempts = 0
            /\ call.pc \in {"worker", "check", "returned"}
            /\ CallReturned => call.result = "denied")
    /\ [][Disallowed => tokens' = tokens]_vars

\* FetchURL, called directly with a disallowed URL and a full bucket, has
\* returned the policy error
C12_Witness ==
    /\ CallReturned /\ call.via = "FetchURL" /\ call.result = "denied"
    /\ call.url.ok /\ ~unbounded /\ tokens = Burst

\* C13: when a FetchURL call has returned, the tokens it consumed equal the
\* network attempts it made, at most MaxRetries; a call whose attempts gave
\* 5xx, 5xx, 2xx returned the body after three attempts and three tokens.
C13_OneTokenPerAttempt ==
    CallReturned =>
        /\ call.acquired = call.attempts
        /\ call.attempts <= MaxRetries
        /\ call.outcomes = <<"5xx", "5xx", "2xx">> =>
              (call.result = "body" /\ call.attempts = 3 /\ call.acquired = 3)

\* C14: an attempt that receives a 4xx ends the call at once with an error:
\* it is the last attempt, no token is taken and no backoff wait made after it.
C14_ClientErrorEndsCall ==
    \A i \in 1..Len(call.outcomes) :
        call.outcomes[i] = "4xx" =>
            /\ CallReturned /\ call.result = "status" /\ call.cause = "4xx"
            /\ i = Len(call.outcomes)
            /\ call.attempts = i /\ call.acquired = i
            /\ Len(call.slept) = i - 1

\* a call has returned the 4xx of its second attempt, after one backoff wait
C14_Witness ==
    /\ CallReturned /\ call.outcomes = <<"5xx", "4xx">>
    /\ call.result = "status" /\ call.slept = <<1>>

\* every attempt made so far failed with a transport error or a 5xx
AllAttemptsFailed ==
    /\ call.attempts > 0
    /\ \A i \in 1..Len(call.outcomes) : call.outcomes[i] \in {"transport", "5xx"}

\* C15 as stated: a call in which every attempt fails with a transport error
\* or a 5xx makes exactly MaxRetries attempts and returns the
\* retries-exhausted error wrapping the cause of the last attempt.
C15_AllFailuresExhaust ==
    (CallReturned /\ AllAttemptsFailed) =>
        /\ call.attempts = MaxRetries
        /\ call.result = "exhausted"
        /\ call.cause = call.outcomes[Len(call.outcomes)]

\* C15 amended: such a call never returns a body and never makes a fourth
\* attempt; it makes exactly MaxRetries attempts and returns the
\* retries-exhausted error wrapping the cause of the last attempt, unless the
\* cancellation signal was set during the call and a rate-gate wait failed, in
\* which case it returns that wait's error after fewer attempts.
C15_AllFailuresExhaustUnlessCancelled ==
    /\ call.attempts <= MaxRetries
    /\ (CallReturned /\ AllAttemptsFailed) =>
          /\ call.result \in {"exhausted", "ratelimit"}
          /\ call.result = "exhausted" =>
                /\ call.attempts = MaxRetries
                /\ call.cause = call.outcomes[Len(call.outcomes)]
          /\ call.result = "ratelimit" => (cancelled /\ call.attempts < MaxRetries)
          /\ ~cancelled => call.result = "exhausted"

\* without cancellation a call has returned the retries-exhausted error for a
\* transport error that followed two 5xx statuses
C15_Witness ==
    /\ CallReturned /\ ~cancelled
    /\ call.outcomes = <<"5xx", "5xx", "transport">>
    /\ call.result = "exhausted" /\ call.cause = "transport"
    /\ call.slept = <<1, 2, 4>>

(* ---- the rate gate at startup ---- *)
\* C16: the rate gate is replaced at most once, inside LoadRobotsTxt, and
\* LoadRobotsTxt has returned before any fetch worker is started: no
\* acquisition precedes the replacement or runs while it can still happen.
C16_ReplacedOnceBeforeWorkers ==
    /\ [](/\ startup.replaced <= 1
          /\ (startup.pc = "running" \/ startup.acquired > 0) => startup.load = "done")
    /\ [][(startup.pc # "new" /\ startup'.rateLimiter # startup.rateLimiter) =>
              /\ startup.load = "sent" /\ startup'.load = "done"
              /\ startup.pc = "load" /\ startup.acquired = 0
              /\ startup.replaced = 0]_vars

\* a worker has acquired from the gate that replaced the unbounded one
C16_Witness ==
    /\ startup.pc = "running" /\ startup.acquired = 1
    /\ startup.replaced = 1 /\ startup.rateLimiter = NewLimiter(<<1, 2>>, 1)

\* C17: with an explicit rate LoadRobotsTxt leaves the gate as New built it,
\* whatever the policy's crawl delay; without one, a loaded policy whose crawl
\* delay for the agent is D > 0 makes the gate rate 1/D with burst 1, and a
\* delay of 0 leaves it unbounded.
C17_GateAfterLoad ==
    startup.load = "done" =>
        LET D == GetCrawlDelay(startup.robots.rules, UserAgent)
        IN /\ startup.userRateLimit > 0 =>
                /\ startup.rateLimiter =
                       NewLimiter(<<startup.userRateLimit, 1>>, startup.userRateLimit + 1)
                /\ startup.replaced = 0
           /\ (startup.userRateLimit = 0 /\ startup.response.kind = "200" /\ D > 0) =>
                startup.rateLimiter = NewLimiter(<<1, D>>, 1)
           /\ (startup.userRateLimit = 0 /\ D = 0) =>
                startup.rateLimiter = NewLimiter("Inf", 0)

\* an explicit rate of 2 requests per second has been kept although the
\* policy states a crawl delay of 1 second for the agent
C17_Witness ==
    /\ startup.load = "done" /\ startup.userRateLimit = 2
    /\ startup.robots.loaded /\ GetCrawlDelay(startup.robots.rules, UserAgent) = 1
    /\ startup.rateLimiter = NewLimiter(<<2, 1>>, 3)

(* ---- the agent's own groups and the wildcard groups ---- *)
\* no disallow pattern of the groups matches the path
AllowedBy(groups, path) ==
    ~ \E i \in 1..Len(groups) :
        \E j \in 1..Len(groups[i].Disallowed) :
            matchesPattern(path, groups[i].Disallowed[j])

\* the groups that name the agent (up to case)
OwnGroups(rules, agent) ==
    LET own(rule) == rule.UserAgent # "*" /\ EqualFold(rule.UserAgent, agent)
    IN SelectSeq(rules, own)

WildcardGroups(rules) ==
    LET wildcard(rule) == rule.UserAgent = "*"
    IN SelectSeq(rules, wildcard)

QueriedPath == IF query.url.path = <<>> THEN <<"/">> ELSE query.url.path

\* an answered question about a path on which the groups of the queried agent
\* and the wildcard groups, both present, give different answers
GroupsDisagree ==
    /\ query.op = "IsAllowed" /\ query.pc = "done" /\ query.url.ok
    /\ query.agent # "*"
    /\ OwnGroups(query.rules, query.agent) # <<>>
    /\ WildcardGroups(query.rules) # <<>>
    /\ AllowedBy(OwnGroups(query.rules, query.agent), QueriedPath)
          # AllowedBy(WildcardGroups(query.rules), QueriedPath)

\* C21: when a policy holds both a group for the queried agent and a wildcard
\* group and the two disagree about a path, IsAllowed returns the answer of
\* the agent's own group.
C21_OwnGroupPrevails ==
    GroupsDisagree =>
        query.result = AllowedBy(OwnGroups(query.rules, query.agent), QueriedPath)

\* C21, amended: when the two disagree, IsAllowed returns false: the group that
\* disallows the path prevails, be it the agent's own or the wildcard one.
C21_DisallowingGroupPrevails == GroupsDisagree => query.result = FALSE

\* the agent's own group disallows nothing, the wildcard group disallows /a,
\* and the question about /a was answered with false
C21_Witness ==
    /\ GroupsDisagree
    /\ AllowedBy(OwnGroups(query.rules, query.agent), QueriedPath)
    /\ query.url.path = <<"/", "a">>
    /\ query.result = FALSE

\* C22: a URL that url.Parse rejects is disallowed by RobotsParser.IsAllowed
\* and by Fetcher.IsAllowed in every state of the policy: none loaded, loaded
\* without rule groups, loaded with rule groups.
C22_MalformedAlwaysDisallowed ==
    (query.op \in {"IsAllowed", "Fetcher.IsAllowed"} /\ query.pc = "done"
        /\ ~query.url.ok) => query.result = FALSE

(* ---- no policy in effect ---- *)
\* LoadRobotsTxt was not called or has not returned, or it failed, or the
\* server answered 404, or the document held no rule group
NoPolicy == ~startup.robots.loaded \/ Len(startup.robots.rules) = 0

\* C23: while no policy is in effect, IsAllowed is true for every well-formed
\* URL, the crawl delay is 0 and the rate gate is the one fetcher.New built
\* from the user's rate.
C23_NoPolicyAllowsAll ==
    (startup.pc \in {"load", "running"} /\ NoPolicy) =>
        /\ \A url \in ParsedUrls : url.ok => FetcherIsAllowed(startup.robots, url)
        /\ startup.robots.loaded => GetCrawlDelay(startup.robots.rules, UserAgent) = 0
        /\ startup.replaced = 0
        /\ startup.rateLimiter = New(startup.userRateLimit)

\* robots.txt was answered with 404 and a worker has passed the rate gate
C23_Witness ==
    /\ startup.pc = "running" /\ startup.acquired > 0
    /\ startup.response.kind = "404" /\ startup.robots.loaded
    /\ NoPolicy

(* ---- matchesPattern ---- *)
\* C24: matchesPattern(path, "") is false; matchesPattern(path, "*") is true;
\* a pattern without * matches exactly the paths that have it as a prefix; a
\* pattern with * matches exactly the paths of which some prefix is the
\* pattern with each * replaced by a string, the empty one included.
C24_MatchesPatternCharacterised ==
    (query.op = "matchesPattern" /\ query.pc = "done") =>
        LET RECURSIVE PrefixInstance(_, _)
            PrefixInstance(p, s) ==
                IF p = <<>> THEN TRUE
                ELSE IF Head(p) = "*"
                THEN \E k \in 0..Len(s) : PrefixInstance(Tail(p), SubSeq(s, k + 1, Len(s)))
                ELSE s # <<>> /\ Head(s) = Head(p) /\ PrefixInstance(Tail(p), Tail(s))
            pattern == query.pattern
            path == query.path
        IN query.result =
              CASE pattern = <<>> -> FALSE
                [] pattern = <<"*">> -> TRUE
                [] pattern # <<>> /\ (\A i \in 1..Len(pattern) : pattern[i] # "*") ->
                      HasPrefix(path, pattern)
                [] OTHER -> PrefixInstance(pattern, path)

(* ---- GetCrawlDelay ---- *)
\* C25: GetCrawlDelay(agent) returns the delay of the first group in file
\* order whose agent equals the queried one up to case and whose delay is
\* nonzero; if there is none, the delay of the first wildcard group with a
\* nonzero delay; otherwise 0.
C25_FirstNonzeroDelay ==
    (query.op = "GetCrawlDelay" /\ query.pc = "done") =>
        LET rules == query.rules
            own(i) == EqualFold(rules[i].UserAgent, query.agent) /\ rules[i].CrawlDelay # 0
            wild(i) == rules[i].UserAgent = "*" /\ rules[i].CrawlDelay # 0
            N == 1..Len(rules)
        IN IF \E i \in N : own(i)
           THEN \E i \in N : /\ own(i) /\ \A j \in 1..(i - 1) : ~own(j)
                              /\ query.result = rules[i].CrawlDelay
           ELSE IF \E i \in N : wild(i)
           THEN \E i \in N : /\ wild(i) /\ \A j \in 1..(i - 1) : ~wild(j)
                              /\ query.result = rules[i].CrawlDelay
           ELSE query.result = 0

\* C25, amended: the same with "positive" for "nonzero": a group whose delay
\* is zero or negative is passed over.
C25_FirstPositiveDelay ==
    (query.op = "GetCrawlDelay" /\ query.pc = "done") =>
        LET rules == query.rules
            own(i) == EqualFold(rules[i].UserAgent, query.agent) /\ rules[i].CrawlDelay > 0
            wild(i) == rules[i].UserAgent = "*" /\ rules[i].CrawlDelay > 0
            N == 1..Len(rules)
        IN IF \E i \in N : own(i)
           THEN \E i \in N : /\ own(i) /\ \A j \in 1..(i - 1) : ~own(j)
                              /\ query.result = rules[i].CrawlDelay
           ELSE IF \E i \in N : wild(i)
           THEN \E i \in N : /\ wild(i) /\ \A j \in 1..(i - 1) : ~wild(j)
                              /\ query.result = rules[i].CrawlDelay
           ELSE query.result = 0

\* the agent's own group has a negative delay and the wildcard group after it
\* a delay of one second, which is the answer
C25_Witness ==
    /\ query.op = "GetCrawlDelay" /\ query.pc = "done"
    /\ query.agent = "essayanalyzer/1.0" /\ Len(query.rules) = 2
    /\ query.rules[1].UserAgent = "EssayAnalyzer/1.0" /\ query.rules[1].CrawlDelay < 0
    /\ query.rules[2].UserAgent = "*" /\ query.rules[2].CrawlDelay = 1
    /\ query.result = 1

(* ---- the Aggregator's callers ---- *)
Writers == DOMAIN caller.add
Readers == DOMAIN caller.read

\* the Aggregator after the results of the callers in S, and no others, have
\* been added whole
Applied(S) ==
    [globalWordCounts |->
         [word \in Words |-> SumOver(S, [w \in S |-> caller.add[w].wordCounts[word]])],
     totalWordsProcessed |->
         SumOver(S, [w \in S |-> SumOver(Words, caller.add[w].wordCounts)]),
     totalEssaysProcessed |-> Cardinality(S)]

\* C26: the same word-count maps given to AddResult in any order, and under
\* any interleaving of concurrent callers, leave the same globalWordCounts,
\* totalWordsProcessed and totalEssaysProcessed: those of the maps added up.
C26_OrderIndependent ==
    (Writers # {} /\ \A w \in Writers : caller.add[w].pc = "done") => agg = Applied(Writers)

\* two concurrent calls have both returned; both counted "computer" and one of
\* them "science" as well
C26_Witness ==
    /\ Writers # {} /\ \A w \in Writers : caller.add[w].pc = "done"
    /\ agg.globalWordCounts["computer"] >= 2
    /\ agg.globalWordCounts["science"] = 1

\* C27: GetTopWords(n), n >= 0, returns min(n, number of distinct words)
\* entries, each a counted word with its count, sorted by count descending and
\* by word ascending among equal counts; every word left out comes after every
\* word returned in that order. (The counts alone fix the result.)
C27_TopWordsRanked ==
    \A r \in Readers :
        (caller.read[r].pc = "unlock" /\ caller.read[r].op = "GetTopWords") =>
            LET counts == caller.read[r].seen.globalWordCounts
                top == caller.read[r].top
                n == caller.read[r].n
                distinct == Cardinality(Keys(counts))
                Before(a, b) ==
                    counts[a] > counts[b] \/ (counts[a] = counts[b] /\ WordLess(a, b))
                returned == {top[i].Word : i \in 1..Len(top)}
            IN /\ Len(top) = IF n < distinct THEN n ELSE distinct
               /\ \A i \in 1..Len(top) :
                     top[i].Word \in Keys(counts) /\ top[i].Count = counts[top[i].Word]
               /\ \A i, j \in 1..Len(top) : i < j => Before(top[i].Word, top[j].Word)
               /\ \A a \in returned, b \in Keys(counts) \ returned : Before(a, b)

\* GetTopWords(1) returns "computer" alone, "science" having the same count
C27_Witness ==
    \E r \in Readers :
        /\ caller.read[r].pc = "unlock" /\ caller.read[r].op = "GetTopWords"
        /\ caller.read[r].n = 1
        /\ caller.read[r].seen.globalWordCounts["science"] > 0
        /\ caller.read[r].seen.globalWordCounts["science"]
              = caller.read[r].seen.globalWordCounts["computer"]
        /\ Len(caller.read[r].top) = 1 /\ caller.read[r].top[1].Word = "computer"

\* the AddResult calls that have returned
Added == {w \in Writers : caller.add[w].pc = "done"}

\* C28: whenever no AddResult call is in progress, totalEssaysProcessed is the
\* number of calls made, totalWordsProcessed is the sum of all the counts they
\* supplied, and it is the sum of the values of globalWordCounts.
C28_TotalsMatchCalls ==
    (Writers # {} /\ \A w \in Writers : caller.add[w].pc \in {"call", "done"}) =>
        /\ agg.totalEssaysProcessed = Cardinality(Added)
        /\ agg.totalWordsProcessed
              = SumOver(Added, [w \in Added |-> SumOver(Words, caller.add[w].wordCounts)])
        /\ agg.totalWordsProcessed = SumOver(Words, agg.globalWordCounts)

\* all the concurrent calls have returned, each having supplied two counts,
\* and so has a reader
C28_Witness ==
    /\ Writers # {} /\ Added = Writers
    /\ agg.totalEssaysProcessed = Cardinality(Writers)
    /\ \A w \in Writers : Cardinality(Keys(caller.add[w].wordCounts)) = 2
    /\ \E r \in Readers : caller.read[r].pc = "done"

\* C29: what GetStats and GetTopWords see and return is the Aggregator with
\* some of the results added whole and the others not at all: never a part of
\* the word counts of a result, nor its word counts without its totals.
C29_ReadersSeeWholeResults ==
    \A r \in Readers :
        caller.read[r].pc = "unlock" =>
            \E S \in SUBSET Writers :
                /\ caller.read[r].seen = Applied(S)
                /\ caller.read[r].op = "GetStats" =>
                      caller.read[r].stats =
                          [processed |-> Cardinality(S),
                           totalWords |-> Applied(S).totalWordsProcessed,
                           uniqueWords |-> Cardinality(Keys(Applied(S).globalWordCounts))]
                /\ caller.read[r].op = "GetTopWords" =>
                      \A i \in 1..Len(caller.read[r].top) :
                          caller.read[r].top[i].Count
                              = Applied(S).globalWordCounts[caller.read[r].top[i].Word]

\* GetStats returns one essay with its two words counted while another
\* AddResult call, with two words to add, waits for the mutex
C29_Witness ==
    \E r \in Readers, w \in Writers :
        /\ caller.read[r].pc = "unlock" /\ caller.read[r].op = "GetStats"
        /\ caller.read[r].stats.processed = 1 /\ caller.read[r].stats.uniqueWords = 2
        /\ caller.add[w].pc = "call"
        /\ Cardinality(Keys(caller.add[w].wordCounts)) = 2

(* ---- bounded queues and backpressure ---- *)
\* the items put on urlCh and neither aggregated nor counted as errors yet
InFlight == SumOver(Urls, [u \in Urls |-> Copies(u)])

\* the tasks that take items from a queue: the stage workers and the aggregator
WorkerTasks ==
    Cardinality(Fetchers) + Cardinality(Parsers) + Cardinality(Processors) + 1

C33_NoBackoffAfterLastAttempt ==
    (CallReturned /\ call.result = "exhausted") => Len(call.slept) = MaxRetries - 1

C35_CancelledAcquisitionFails ==
    /\ [][(call.pc = "wait" /\ ~call.waiting /\ cancelled) =>
            \/ call' = call
            \/ /\ call'.pc = "returned" /\ call'.result = "ratelimit"
               /\ call'.acquired = call.acquired /\ call'.attempts = call.attempts
               /\ tokens' = tokens]_vars
    /\ [][CallReturned => call' = call]_vars

\* a call on the unbounded gate has failed once, and its second acquisition,
\* attempted after the cancellation, has ended it
C35_Witness ==
    /\ CallReturned /\ call.result = "ratelimit"
    /\ unbounded /\ cancelled
    /\ call.attempts = 1 /\ call.acquired = 1

(* ---- the error sink at shutdown ---- *)
\* C36: errorCh is closed only after the reader, every stage worker and the
\* aggregator have exited; every error taken from errorCh is counted, and at
\* the return of runPipeline the collector has stopped with errorCh empty, so
\* every error the queue accepted is in errorCount, which no longer changes.
C36_ErrorsCountedBeforeReturn ==
    /\ [](closed["errorCh"] > 0 =>
            /\ reader.pc = "done" /\ aggregator.pc = "done"
            /\ \A f \in Fetchers : fetcher[f].pc = "done"
            /\ \A p \in Parsers : parser[p].pc = "done"
            /\ \A p \in Processors : processor[p].pc = "done")
    /\ [](Returned => (collector = "done" /\ ch["errorCh"] = <<>>))
    /\ [][Len(ch'["errorCh"]) < Len(ch["errorCh"]) => errorCount' = errorCount + 1]_vars
    /\ [][Returned => errorCount' = errorCount]_vars

\* a run has returned with both of its URLs counted as errors
C36_Witness ==
    /\ Returned /\ errorCount = 2
    /\ collector = "done" /\ closed["errorCh"] = 1

(* ---- the split of the workers over the stages ---- *)
\* a calculateWorkerDistribution call that has answered
Distributed == query.op = "calculateWorkerDistribution" /\ query.pc = "done"

\* the worker tasks runPipeline starts from a WorkerConfig
Started(workerCfg) == workerCfg.Fetchers + workerCfg.Parsers + workerCfg.Processors

C39_EveryStageHasAWorker ==
    Distributed =>
        /\ query.result.Fetchers >= 1
        /\ query.result.Parsers >= 1
        /\ query.result.Processors >= 1

\* a single configured worker has been split: every percentage rounds to zero
C39_Witness ==
    /\ Distributed /\ query.totalWorkers = 1
    /\ (query.totalWorkers * 60) \div 100 = 0
    /\ query.result = [Fetchers |-> 1, Parsers |-> 1, Processors |-> 1]

(* ---- the parse of robots.txt ---- *)
\* a parseRobotsTxt call that has answered without a scanner error
Parsed ==
    query.op = "parseRobotsTxt" /\ query.pc = "done" /\ query.result.err = ""

\* C37: the parse yields one rule group per user-agent line, in file order,
\* the last one included; a group's patterns are the non-empty values of
\* the disallow lines between its user-agent line and the next, in order; its
\* delay is the value of the last such crawl-delay line that is an integer, zero
\* without one; every other line, and a disallow or crawl-delay line before
\* the first user-agent line, changes nothing.
C37_GroupsFollowTheFile ==
    Parsed =>
        LET content == query.lines
            rules == query.result.rules
            Key(i) == IF content[i].colon /\ content[i].key # "#Disallow"
                      THEN ToLower(TrimSpace(content[i].key)) ELSE ""
            Value(i) == TrimSpace(content[i].value)
            Opens == {i \in 1..Len(content) : Key(i) = "user-agent"}
            Group(i) == Cardinality({j \in Opens : j <= i})
            Adds(g) ==
                LET Test(i) == Key(i) = "disallow" /\ Group(i) = g /\ Value(i) # ""
                IN  SelectSeq([i \in 1..Len(content) |-> i], Test)
            Sets(g) == {i \in 1..Len(content) :
                           Key(i) = "crawl-delay" /\ Group(i) = g /\ ~Atoi(Value(i)).err}
        IN  /\ Len(rules) = Cardinality(Opens)
            /\ \A g \in 1..Len(rules) :
                   LET open == CHOOSE i \in Opens : Group(i) = g
                       last == CHOOSE i \in Sets(g) : \A j \in Sets(g) : j <= i
                   IN  /\ rules[g].UserAgent = Value(open)
                       /\ rules[g].Disallowed =
                              [k \in 1..Len(Adds(g)) |-> Value(Adds(g)[k])]
                       /\ rules[g].CrawlDelay =
                              IF Sets(g) = {} THEN 0 ELSE Atoi(Value(last)).n

\* a file of three lines has given one group with a pattern and a delay
C37_Witness ==
    /\ Parsed /\ Len(query.lines) = 3
    /\ query.result.rules =
           <<[UserAgent |-> "*", Disallowed |-> <<"/a">>, CrawlDelay |-> 2]>>

(* ---- the count of one text ---- *)
\* a ProcessText call that has answered
Counted == query.op = "ProcessText" /\ query.pc = "done"

\* C31: the keys of the map ProcessText returns are exactly the lower-cased
\* maximal runs of letters of the text that are in the word bank, each with
\* the number of runs that spell it in any case; a text without such a run
\* gives the empty map.
C31_CountsValidRuns ==
    Counted =>
        LET text == query.text
            Letter(i) == i \in 1..Len(text) /\ text[i] # "-"
            Runs == {r \in (1..Len(text)) \X (1..Len(text)) :
                        /\ r[1] <= r[2]
                        /\ \A i \in r[1]..r[2] : Letter(i)
                        /\ ~Letter(r[1] - 1) /\ ~Letter(r[2] + 1)}
            Spelt(r) == [i \in 1..(r[2] - r[1] + 1) |->
                            IF text[r[1] + i - 1] = "A" THEN "a" ELSE text[r[1] + i - 1]]
            Valid == {r \in Runs : Spelt(r) \in query.wordBank}
        IN  /\ DOMAIN query.result = {Spelt(r) : r \in Valid}
            /\ \A w \in DOMAIN query.result :
                   query.result[w] = Cardinality({r \in Valid : Spelt(r) = w})
            /\ (Valid = {}) => (DOMAIN query.result = {})

\* the text "a-A" has been counted against a bank that holds "a": two
\* occurrences under the one key
C31_Witness ==
    /\ Counted /\ query.text = <<"a", "-", "A">>
    /\ <<"a">> \in query.wordBank
    /\ DOMAIN query.result = {<<"a">>} /\ query.result[<<"a">>] = 2

(* ---- the failure counter of the Parser ---- *)
\* every ExtractText call has returned
AllExtracted == \A c \in DOMAIN extract.calls : extract.calls[c].pc = "returned"

\* the calls in which no selector yielded non-empty text
Unyielding ==
    {c \in DOMAIN extract.calls :
        ~(/\ extract.calls[c].doc.readable
          /\ \E k \in DOMAIN contentSelectors :
                 Find(extract.calls[c].doc, contentSelectors[k]) = "text")}

\* C32: once the concurrent ExtractText calls have returned, GetFailedCount is
\* the number of calls in which no selector yielded non-empty text; each of
\* those returned an error and the empty string, and every other call
\* returned its text without an error.
C32_FailedCountMatchesFailures ==
    (extract # NoExtract /\ AllExtracted) =>
        /\ extract.failedCount = Cardinality(Unyielding)
        /\ \A c \in DOMAIN extract.calls :
               IF c \in Unyielding
               THEN extract.calls[c].err # "" /\ extract.calls[c].text = ""
               ELSE extract.calls[c].err = "" /\ extract.calls[c].text = "text"

(* ---- the response bodies ---- *)
\* C40: when runPipeline has returned, after a graceful run or a cancelled one,
\* no response body returned by a successful FetchURL is still open.
C40_BodiesClosedAtReturn ==
    Returned => \A u \in Urls : hist.open[u] = 0

====
